---- MODULE Spec2Model ----
(***************************************************************************)
(* Discovery and live-session synchronisation engine of Shit-Chat          *)
(* (src/server.js): the registry of cascades, the discovery pass, the      *)
(* snapshot poller, the protocol session (call correlation over one        *)
(* WebSocket) and the change hash.                                         *)
(*                                                                         *)
(* JavaScript runs one handler at a time and yields only at an await, so   *)
(* every action below is one run of synchronous code: from a timer or a    *)
(* transport event up to the next await of the task it resumes.  The       *)
(* program state is threaded through the operators as a record st.         *)
(***************************************************************************)
EXTENDS Integers, Sequences, FiniteSets, TLC

\* ------------------------------------------------------------- bounds
MaxSessions == 2      \* protocol sessions ever opened in one run
MaxCallId == 4        \* largest call id one session issues
MaxCtx == 1           \* execution contexts a target announces
MaxLen == 3           \* length of the strings the hash is explored on
MaxDiscover == 2      \* firings of the discovery timer in one run
MaxPolls == 1         \* firings of the polling timer in one run
MaxCaptures == 2      \* firings of the polling timer in a run of PollSpec
MaxFaults == 1        \* transports closed and contexts destroyed by the targets in one run
MaxRequests == 2      \* HTTP requests in a run of ApiSpec
MaxExtra == 3         \* single characters added to a title the validator is explored on
PadLen == 77          \* length of the run of one letter added to such a title
MaxSubscribers == 2   \* WebSocket clients that connect in one run
MaxTokens == 1        \* session tokens created in one run
MaxNow == 9           \* days the clock advances in one run
MaxLife == 3          \* startServer and stopServer calls in one run
MaxProcs == 3         \* tunnel processes spawned in one run

\* ------------------------------------------------------------- data
Passes == {1, 2}      \* discovery passes that can be in flight together
PORTS == <<9000, 9001, 9002, 9003>>
PortSet == {PORTS[i] : i \in 1..Len(PORTS)}

\* Target descriptors of /json/list (webSocketDebuggerUrl as char codes).
TargetA == [webSocketDebuggerUrl |-> <<119, 115, 58, 57, 48, 48, 48, 47, 65>>, port |-> 9000]
TargetB == [webSocketDebuggerUrl |-> <<119, 115, 58, 57, 48, 48, 49, 47, 66>>, port |-> 9001]
Targets == {TargetA, TargetB}
Urls == {t.webSocketDebuggerUrl : t \in Targets}

Titles == {"Fix bug", "Agent"}
\* Serialized HTML of a chat root: "Aa", "BB" and "Aa!".
Htmls == {<<65, 97>>, <<66, 66>>, <<65, 97, 33>>}
\* Char codes the hash is explored on: NUL, "A", "a" and U+FFFF.
Chars == {0, 65, 97, 65535}
CtxIds == 1..MaxCtx
Sessions == 1..MaxSessions

NoSession == 0
NoCtx == 0
NoSnap == [html |-> <<>>, title |-> "null"]
NoHash == <<"null">>
NoCss == "unset"
NoUrl == <<>>

\* ------------------------------------------------------------- hashString
\* One round of the loop body: hash = ((hash << 5) - hash) + char; hash & hash,
\* that is 31 * hash + char wrapped to a signed 32-bit integer.  The value is
\* split in 16-bit halves so that no intermediate leaves the 32-bit range.
hashStep(hash, char) ==
    LET lo == hash % 65536
        hi == ((hash - lo) \div 65536) % 65536
        lo2 == 31 * lo + char
        hi2 == (31 * hi + (lo2 \div 65536)) % 65536
    IN  (IF hi2 >= 32768 THEN hi2 - 65536 ELSE hi2) * 65536 + (lo2 % 65536)

RECURSIVE hashLoop(_, _, _)
hashLoop(str, i, hash) ==
    IF i > Len(str) THEN hash ELSE hashLoop(str, i + 1, hashStep(hash, str[i]))

\* Mutant: the loop starts at the second character.
hashIntSkipFirst(str) == hashLoop(str, 2, 0)

hashInt(str) == hashLoop(str, 1, 0)

Digits36 == <<"0", "1", "2", "3", "4", "5", "6", "7", "8", "9", "a", "b", "c",
              "d", "e", "f", "g", "h", "i", "j", "k", "l", "m", "n", "o", "p",
              "q", "r", "s", "t", "u", "v", "w", "x", "y", "z">>

\* Digits of the magnitude of a non-positive number m (most significant first).
RECURSIVE mag36(_)
mag36(m) ==
    IF m = 0 THEN <<>>
    ELSE LET r == (36 - (m % 36)) % 36
         IN  mag36((m + r) \div 36) \o <<Digits36[r + 1]>>

\* Number.prototype.toString(36) of a 32-bit integer.
toString36(n) ==
    IF n = 0 THEN <<"0">>
    ELSE IF n < 0 THEN <<"-">> \o mag36(n)
    ELSE mag36(-n)

hashString(str) == toString36(hashInt(str))

IdOf == [u \in Urls |-> hashString(u)]
Ids == {IdOf[u] : u \in Urls}


\* ------------------------------------------------------------- state
VARIABLES
    cascades,   \* the registry: identity -> session of the entry, or NoSession
    cdp,        \* session -> [ws, url, idCounter, pending, contexts, rootContextId];
                \* issued lists the ids call has handed out, in order (observation only)
    entry,      \* session -> the cascade object that owns it, once created;
                \* removed: a swap has taken it out of the registry (observation only)
    pass,       \* discovery pass -> its position and local variables;
                \* unidentified: the new sessions it failed to identify (observation only)
    emitted,    \* the messages broadcast by the last step, in order
    last,       \* what the last step did (observation only)
    budget,     \* what the run may still do: timer firings [discover, poll],
                \* disturbances by the targets [fault], largest call id [callId],
                \* HTTP requests [api]
    hin,        \* exploration of a pure function: its input (hashString: a string,
                \* an edit of it and the kind of edit; isGoodTitle: a string;
                \* the probe script: a page)
    hout,       \* exploration of a pure function: its output
    clients,    \* wss.clients: subscriber -> [readyState, inbox]; inbox lists what
                \* was sent to it (observation only)
    watchedCascadeId,  \* extension server: the identity that is polled
    auth,       \* extension server: [authEnabled, sessions, now]; created is when
                \* a login created the token (observation only)
    ext,        \* VS Code extension: [serverRunning, tunnelProcess, currentTunnelUrl,
                \* settingsPanel];
                \* warning: the modal security warning is open; alive: the tunnel
                \* processes that have not exited; killed: those of them that
                \* stopTunnel has killed; spawned: how many were ever spawned
    server      \* extension server: [currentServer, wss, discoveryInterval,
                \* pollInterval]; timers: the interval timers that exist; awaiting:
                \* the startServer calls suspended at "await main"

vars == <<cascades, cdp, entry, pass, emitted, last, budget, hin, hout,
          clients, watchedCascadeId, auth, ext, server>>

FreshCdp == [ws |-> "none", url |-> NoUrl, idCounter |-> 1, pending |-> {},
             contexts |-> <<>>, rootContextId |-> NoCtx, announced |-> 0, issued |-> <<>>]
FreshEntry == [exists |-> FALSE, id |-> <<>>, chatTitle |-> "null", snapshot |-> NoSnap,
               css |-> NoCss, snapshotHash |-> NoHash, removed |-> FALSE]
EmptyMap == [i \in Ids |-> NoSession]
IdlePass == [pc |-> "idle", targets |-> <<>>, url |-> NoUrl, mode |-> "none",
             s |-> NoSession, newCascades |-> EmptyMap, chatTitle |-> "null",
             cands |-> {}, identified |-> {}, allDown |-> FALSE, touched |-> {},
             dead |-> {}, unidentified |-> {}]
NoLast == [op |-> "none"]

\* The parts of the state that only the extension server and the extension use.
Subscribers == 1..MaxSubscribers
Tokens == 1..MaxTokens
NoToken == 0
NoExpiry == 0 - 1
NoWatch == <<>>
NoClients == [c \in Subscribers |-> [readyState |-> "none", inbox |-> <<>>]]
AuthStart == [authEnabled |-> TRUE, sessions |-> [t \in Tokens |-> NoExpiry],
              created |-> [t \in Tokens |-> NoExpiry], now |-> 0]
NoProc == 0
ExtStart == [serverRunning |-> FALSE, tunnelProcess |-> NoProc, currentTunnelUrl |-> FALSE,
             settingsPanel |-> FALSE, warning |-> FALSE,
             alive |-> {}, killed |-> {}, spawned |-> 0]
NoTimer == 0
ServerStart == [currentServer |-> FALSE, wss |-> FALSE, discoveryInterval |-> NoTimer,
                pollInterval |-> NoTimer, timers |-> {}, created |-> 0, awaiting |-> 0]
Aside ==
    /\ clients = NoClients
    /\ watchedCascadeId = NoWatch
    /\ auth = AuthStart
    /\ ext = ExtStart
    /\ server = ServerStart

Keys(map) == {i \in Ids : map[i] # NoSession}
Values(map) == {map[i] : i \in Keys(map)}

\* The program state as one value; ok turns FALSE when a step would leave the bounds.
State == [cascades |-> cascades, cdp |-> cdp, entry |-> entry, pass |-> pass,
          emitted |-> <<>>, last |-> NoLast, ok |-> TRUE,
          clients |-> clients, watchedCascadeId |-> watchedCascadeId, server |-> server]

Apply(st) ==
    /\ st.ok
    /\ cascades' = st.cascades
    /\ cdp' = st.cdp
    /\ entry' = st.entry
    /\ pass' = st.pass
    /\ emitted' = st.emitted
    /\ last' = st.last
    /\ clients' = st.clients
    /\ watchedCascadeId' = st.watchedCascadeId
    /\ server' = st.server
    /\ UNCHANGED <<hin, hout, auth, ext>>

Step(st) == Apply(st) /\ UNCHANGED budget

Spend(what) ==
    /\ budget[what] > 0
    /\ budget' = [budget EXCEPT ![what] = @ - 1]

\* ------------------------------------------------------------- broadcast
\* Mutant: the message is sent to every client of the server, open or not.
broadcastAll(st, msg) ==
    [st EXCEPT !.emitted = Append(@, msg),
               !.clients = [c \in Subscribers |->
                               IF @[c].readyState # "none"
                               THEN [@[c] EXCEPT !.inbox = Append(@, msg)]
                               ELSE @[c]]]

broadcast(st, msg) ==
    [st EXCEPT !.emitted = Append(@, msg),
               !.clients = [c \in Subscribers |->
                               IF @[c].readyState = "open"
                               THEN [@[c] EXCEPT !.inbox = Append(@, msg)]
                               ELSE @[c]]]

broadcastCascadeList(st) ==
    broadcast(st, [type |-> "cascade_list",
                   cascades |-> {[id |-> i, title |-> st.entry[st.cascades[i]].chatTitle] :
                                    i \in Keys(st.cascades)}])

\* ------------------------------------------------------------- protocol session
\* Mutant: the id counter is read but not advanced.
callNoIncrement(st, s, kind, owner, stage, idx, ctx) ==
    LET c == st.cdp[s]
        rec == [id |-> c.idCounter, kind |-> kind, owner |-> owner, stage |-> stage,
                idx |-> idx, ctx |-> ctx, sent |-> (c.ws = "open")]
    IN  [st EXCEPT !.cdp[s].pending = c.pending \cup {rec},
                   !.cdp[s].issued = Append(c.issued, rec.id),
                   !.ok = st.ok /\ Len(c.issued) < budget.callId]

\* connectCDP.call: take the next id, register the one-shot listener, send.
\* A send on a transport that is not open never reaches the target.
call(st, s, kind, owner, stage, idx, ctx) ==
    LET c == st.cdp[s]
        rec == [id |-> c.idCounter, kind |-> kind, owner |-> owner, stage |-> stage,
                idx |-> idx, ctx |-> ctx, sent |-> (c.ws = "open")]
    IN  [st EXCEPT !.cdp[s].idCounter = c.idCounter + 1,
                   !.cdp[s].pending = c.pending \cup {rec},
                   !.cdp[s].issued = Append(c.issued, rec.id),
                   !.ok = st.ok /\ c.idCounter <= budget.callId]

wsClose(st, s) == [st EXCEPT !.cdp[s].ws = "closed"]

SetPass(st, p, fields) ==
    [st EXCEPT !.pass[p] = [f \in DOMAIN st.pass[p] |->
                               IF f \in DOMAIN fields THEN fields[f] ELSE st.pass[p][f]]]


\* ------------------------------------------------------------- discover
NoMeta == [found |-> FALSE, chatTitle |-> "null", contextId |-> NoCtx]

RECURSIVE nextTarget(_, _)

\* An exception leaves discover: the promise it returned rejects, nobody awaits
\* it, and the pass ends without cleanup or swap.  left: the targets it had not
\* come to; nonList: the exception came from a port's answer.
abort(st, p, nonList) ==
    [st EXCEPT !.pass[p] = IdlePass,
               !.last = [op |-> "aborted", before |-> st.cascades,
                         cands |-> st.pass[p].cands,
                         identified |-> st.pass[p].identified,
                         allDown |-> st.pass[p].allDown,
                         dead |-> st.pass[p].dead,
                         unidentified |-> st.pass[p].unidentified,
                         left |-> st.pass[p].targets, nonList |-> nonList]]

\* discover, "3. Cleanup old", the changed test, the swap and the broadcast.
\* gone: the sessions the cleanup closes; new: the mapping swapped in;
\* changed: whether the list is broadcast.
swap(st, p, gone, new, changed) ==
    LET st1 == [st EXCEPT
                  !.cdp = [s \in Sessions |->
                              IF s \in gone THEN [st.cdp[s] EXCEPT !.ws = "closed"]
                              ELSE st.cdp[s]],
                  !.cascades = new,
                  !.entry = [s \in Sessions |->
                                IF s \in Values(st.cascades) \ Values(new)
                                THEN [st.entry[s] EXCEPT !.removed = TRUE]
                                ELSE st.entry[s]],
                  !.pass[p] = IdlePass,
                  !.last = [op |-> "discover", before |-> st.cascades,
                            cands |-> st.pass[p].cands,
                            identified |-> st.pass[p].identified,
                            allDown |-> st.pass[p].allDown,
                            dead |-> st.pass[p].dead,
                            unidentified |-> st.pass[p].unidentified,
                            left |-> st.pass[p].targets, nonList |-> FALSE]]
    IN  IF changed THEN broadcastCascadeList(st1) ELSE st1

Unconfirmed(old, new) == {old[i] : i \in {k \in Keys(old) : new[k] = NoSession}}

\* Mutant: the new mapping is merged into the old one instead of replacing it.
finishMerge(st, p) ==
    LET old == st.cascades
        new == st.pass[p].newCascades
        merged == [i \in Ids |-> IF new[i] # NoSession THEN new[i] ELSE old[i]]
    IN  swap(st, p, Unconfirmed(old, new), merged,
             Cardinality(Keys(old)) # Cardinality(Keys(merged)))

\* Mutant: the cleanup loop is missing.
finishNoCleanup(st, p) ==
    LET old == st.cascades
        new == st.pass[p].newCascades
    IN  swap(st, p, {}, new, Cardinality(Keys(old)) # Cardinality(Keys(new)))

\* Mutant: the list is broadcast after every pass.
finishAlways(st, p) ==
    swap(st, p, Unconfirmed(st.cascades, st.pass[p].newCascades), st.pass[p].newCascades, TRUE)

finish(st, p) ==
    LET old == st.cascades
        new == st.pass[p].newCascades
    IN  swap(st, p, Unconfirmed(old, new), new,
             Cardinality(Keys(old)) # Cardinality(Keys(new)))

\* discover, "New connection": connectCDP opens a WebSocket and awaits open/error.
newConnection(st, p) ==
    LET free == {s \in Sessions : st.cdp[s].ws = "none"}
        s == IF free = {} THEN 1 ELSE CHOOSE x \in free : \A y \in free : x <= y
    IN  IF free = {} THEN [st EXCEPT !.ok = FALSE]
        ELSE SetPass([st EXCEPT !.cdp[s] = [FreshCdp EXCEPT !.ws = "connecting",
                                                           !.url = st.pass[p].url]],
                     p, [pc |-> "connect", s |-> s, mode |-> "new"])

\* The cascade object literal of discover and newCascades.set(id, cascade).
createEntry(st, p, s, css) ==
    LET id == IdOf[st.pass[p].url]
        st1 == [st EXCEPT
                  !.entry[s] = [exists |-> TRUE, id |-> id,
                                chatTitle |-> st.pass[p].chatTitle,
                                snapshot |-> NoSnap, css |-> css, snapshotHash |-> NoHash,
                                removed |-> FALSE],
                  !.pass[p].newCascades[id] = s]
    IN  nextTarget(st1, p)

\* captureCSS as discover calls it for a new cascade.
captureCSS(st, p, s) ==
    IF st.cdp[s].rootContextId = NoCtx THEN createEntry(st, p, s, "null")
    ELSE SetPass(call(st, s, "css", p, "none", 0, st.cdp[s].rootContextId),
                 p, [pc |-> "css"])

\* Mutant: a new connection that is not identified is dropped without being closed.
metaDoneKeepOpen(st, p, s, meta) ==
    LET id == IdOf[st.pass[p].url]
        root == IF meta.contextId # NoCtx THEN meta.contextId ELSE st.cdp[s].rootContextId
    IN  IF st.pass[p].mode = "refresh"
        THEN IF meta.found
             THEN nextTarget([st EXCEPT !.entry[s].chatTitle = meta.chatTitle,
                                        !.cdp[s].rootContextId = root,
                                        !.pass[p].newCascades[id] = s,
                                        !.pass[p].identified = @ \cup {id},
                                        !.pass[p].touched =
                                            IF meta.chatTitle # st.entry[s].chatTitle
                                               \/ root # st.cdp[s].rootContextId
                                            THEN @ \cup {id} ELSE @], p)
             ELSE newConnection(st, p)
        ELSE IF meta.found
             THEN captureCSS([st EXCEPT !.cdp[s].rootContextId = root,
                                        !.pass[p].chatTitle = meta.chatTitle,
                                        !.pass[p].identified = @ \cup {id}], p, s)
             ELSE nextTarget([st EXCEPT !.pass[p].unidentified = @ \cup {s}], p)

\* discover after "await extractMetadata": the refresh branch and the new branch.
metaDone(st, p, s, meta) ==
    LET id == IdOf[st.pass[p].url]
        root == IF meta.contextId # NoCtx THEN meta.contextId ELSE st.cdp[s].rootContextId
    IN  IF st.pass[p].mode = "refresh"
        THEN IF meta.found
             THEN nextTarget([st EXCEPT !.entry[s].chatTitle = meta.chatTitle,
                                        !.cdp[s].rootContextId = root,
                                        !.pass[p].newCascades[id] = s,
                                        !.pass[p].identified = @ \cup {id},
                                        !.pass[p].touched =
                                            IF meta.chatTitle # st.entry[s].chatTitle
                                               \/ root # st.cdp[s].rootContextId
                                            THEN @ \cup {id} ELSE @], p)
             ELSE newConnection(st, p)
        ELSE IF meta.found
             THEN captureCSS([st EXCEPT !.cdp[s].rootContextId = root,
                                        !.pass[p].chatTitle = meta.chatTitle,
                                        !.pass[p].identified = @ \cup {id}], p, s)
             ELSE nextTarget(wsClose([st EXCEPT !.pass[p].unidentified = @ \cup {s}], s), p)

\* extractMetadata, "Search all contexts", resumed at index i of the live list.
scanContexts(st, p, s, i) ==
    IF i <= Len(st.cdp[s].contexts)
    THEN SetPass(call(st, s, "meta", p, "scan", i, st.cdp[s].contexts[i]),
                 p, [pc |-> "probe", s |-> s])
    ELSE metaDone(st, p, s, NoMeta)

\* extractMetadata up to its first await.
extractMetadata(st, p, s) ==
    IF st.cdp[s].rootContextId # NoCtx
    THEN SetPass(call(st, s, "meta", p, "cached", 0, st.cdp[s].rootContextId),
                 p, [pc |-> "probe", s |-> s])
    ELSE scanContexts(st, p, s, 1)

\* Mutant: an entry the registry holds is reused without looking at its transport.
nextTargetReuse(st, p) ==
    IF st.pass[p].targets = <<>> THEN finish(st, p)
    ELSE LET t == Head(st.pass[p].targets)
             id == IdOf[t.webSocketDebuggerUrl]
             st1 == SetPass(st, p, [targets |-> Tail(st.pass[p].targets),
                                    url |-> t.webSocketDebuggerUrl])
             existing == st.cascades[id]
         IN  IF existing # NoSession
             THEN nextTarget([st1 EXCEPT !.pass[p].newCascades[id] = existing,
                                         !.pass[p].identified = @ \cup {id}], p)
             ELSE newConnection(st1, p)

\* discover, head of "for (const target of allTargets)".
nextTarget(st, p) ==
    IF st.pass[p].targets = <<>> THEN finish(st, p)
    ELSE LET t == Head(st.pass[p].targets)
             id == IdOf[t.webSocketDebuggerUrl]
             st1 == SetPass(st, p, [targets |-> Tail(st.pass[p].targets),
                                    url |-> t.webSocketDebuggerUrl])
             existing == st.cascades[id]
         IN  IF t.webSocketDebuggerUrl = NoUrl
             THEN abort(st, p, FALSE)   \* hashString(undefined): str.length throws
             ELSE IF existing # NoSession /\ st.cdp[existing].ws = "open"
             THEN extractMetadata(SetPass(st1, p, [mode |-> "refresh"]), p, existing)
             ELSE newConnection(st1, p)


\* ------------------------------------------------------------- updateSnapshots
\* updateSnapshots up to its await: captureHTML issues one evaluate per cascade
\* that has a root context.
updateSnapshots(st) ==
    LET polled == {s \in Values(st.cascades) : st.cdp[s].rootContextId # NoCtx}
        issue(s) == call(st, s, "html", "poll", "none", 0, st.cdp[s].rootContextId).cdp[s]
    IN  [st EXCEPT !.cdp = [s \in Sessions |-> IF s \in polled THEN issue(s) ELSE st.cdp[s]],
                   !.ok = \A s \in polled : st.cdp[s].idCounter <= budget.callId]

\* Mutant: the hash comparison is missing, every capture is stored and announced.
snapshotCapturedAlways(st, s, snap) ==
    LET c == st.entry[s]
        st1 == [st EXCEPT !.entry[s].snapshot = snap,
                          !.entry[s].snapshotHash = hashString(snap.html)]
        st2 == broadcast(st1, [type |-> "snapshot_update", cascadeId |-> c.id])
    IN  [st2 EXCEPT !.last = [op |-> "capture", s |-> s, snap |-> snap, old |-> c]]

\* Mutant: the new hash is not stored with the new snapshot.
snapshotCapturedStaleHash(st, s, snap) ==
    LET c == st.entry[s]
        st1 == [st EXCEPT !.entry[s].snapshot = snap]
        st2 == IF hashString(snap.html) # c.snapshotHash
               THEN broadcast(st1, [type |-> "snapshot_update", cascadeId |-> c.id])
               ELSE st
    IN  [st2 EXCEPT !.last = [op |-> "capture", s |-> s, snap |-> snap, old |-> c]]

\* Mutant: a capture that changed also replaces the stylesheet of the entry.
snapshotCapturedRestyled(st, s, snap) ==
    LET c == st.entry[s]
        hash == hashString(snap.html)
        retitle == snap.title # "null" /\ snap.title # c.chatTitle
        st1 == [st EXCEPT !.entry[s].snapshot = snap,
                          !.entry[s].snapshotHash = hash,
                          !.entry[s].css = "",
                          !.entry[s].chatTitle = IF retitle THEN snap.title ELSE @]
        st2 == IF retitle THEN broadcastCascadeList(st1) ELSE st1
        st3 == IF hash # c.snapshotHash
               THEN broadcast(st2, [type |-> "snapshot_update", cascadeId |-> c.id])
               ELSE st
    IN  [st3 EXCEPT !.last = [op |-> "capture", s |-> s, snap |-> snap, old |-> c]]

\* The body of updateSnapshots after "await captureHTML" for the cascade of session s.
snapshotCaptured(st, s, snap) ==
    LET c == st.entry[s]
        hash == hashString(snap.html)
        retitle == snap.title # "null" /\ snap.title # c.chatTitle
        st1 == [st EXCEPT !.entry[s].snapshot = snap,
                          !.entry[s].snapshotHash = hash,
                          !.entry[s].chatTitle = IF retitle THEN snap.title ELSE @]
        st2 == IF retitle THEN broadcastCascadeList(st1) ELSE st1
        st3 == IF hash # c.snapshotHash
               THEN broadcast(st2, [type |-> "snapshot_update", cascadeId |-> c.id])
               ELSE st
    IN  [st3 EXCEPT !.last = [op |-> "capture", s |-> s, snap |-> snap, old |-> c]]

\* Extension server: the body of updateSnapshots after "await captureHTML" for
\* the cascade of session s; its captures carry no title.
snapshotCapturedWatched(st, s, snap) ==
    LET c == st.entry[s]
        hash == hashString(snap.html)
        st1 == [st EXCEPT !.entry[s].snapshot = [html |-> snap.html, title |-> "null"],
                          !.entry[s].snapshotHash = hash]
        st2 == IF hash # c.snapshotHash
               THEN broadcast(st1, [type |-> "snapshot_update", cascadeId |-> c.id])
               ELSE st
    IN  [st2 EXCEPT !.last = [op |-> "capture", s |-> s, snap |-> snap, old |-> c]]

\* ------------------------------------------------------------- actions
\* setInterval(discover): a pass starts and queries every port.
DiscoverStart(p) ==
    /\ pass[p].pc = "idle"
    /\ Spend("discover")
    /\ Apply(SetPass(State, p, [pc |-> "fetch",
                                 dead |-> {s \in Values(cascades) : cdp[s].ws = "closed"}]))

\* The port queries of a pass have all settled: ports in reach answered with a
\* list, the others failed (getJson gives []); listed is allTargets.
DiscoverFetched(p, reach, listed) ==
    /\ pass[p].pc = "fetch"
    /\ \A i \in 1..Len(listed) : listed[i].port \in reach
    /\ Step(nextTarget(SetPass(State, p,
                [targets |-> listed, allDown |-> (reach = {}),
                 cands |-> {IdOf[listed[i].webSocketDebuggerUrl] : i \in 1..Len(listed)}]), p))

\* connectCDP: the transport opened; Runtime.enable is called.
ConnectOpen(p) ==
    LET s == pass[p].s
    IN  /\ pass[p].pc = "connect"
        /\ Step(SetPass(call([State EXCEPT !.cdp[s].ws = "open"], s, "enable", p, "none", 0, NoCtx),
                         p, [pc |-> "enable"]))

\* connectCDP: the transport failed to open; discover's catch moves on.
ConnectError(p) ==
    /\ pass[p].pc = "connect"
    /\ Step(nextTarget(wsClose(State, pass[p].s), p))

\* connectCDP: the 500 ms wait is over; discover identifies the new session.
SleepDone(p) ==
    /\ pass[p].pc = "sleep"
    /\ Step(extractMetadata(State, p, pass[p].s))

\* A response {id, result} or {id, error} arrives: the listener of that id is
\* removed and the awaiting task runs on.
MetaOutcomes == {[found |-> TRUE, chatTitle |-> t] : t \in Titles}
                \cup {[found |-> FALSE, chatTitle |-> "notfound"],
                      [found |-> FALSE, chatTitle |-> "error"]}
\* A capture returns the HTML and the title inferred from it ("Aa!" is the one
\* page whose first message gives a title), or fails.
Snaps == {[html |-> h, title |-> IF Len(h) = 3 THEN "Fix bug" ELSE "null"] : h \in Htmls}
HtmlOutcomes == Snaps \cup {[html |-> <<>>, title |-> "error"]}

\* What the injection script meets in the page: whether it locates an editor
\* and whether the submission then has an effect there; or the script throws
\* (the response carries exceptionDetails and no value); or the call is rejected.
InjectOutcomes ==
    {[kind |-> "value", editor |-> TRUE, effect |-> f] : f \in BOOLEAN}
    \cup {[kind |-> "value", editor |-> FALSE, effect |-> FALSE]}
    \cup {[kind |-> "exception", editor |-> FALSE, effect |-> FALSE],
          [kind |-> "error", editor |-> FALSE, effect |-> FALSE]}

\* injectMessage after its await and the end of POST /send/:id.
sendDone(st, s, rec, out) ==
    LET result == IF out.kind = "error" THEN [ok |-> FALSE, reason |-> "e.message"]
                  ELSE IF out.kind = "exception" THEN [ok |-> FALSE, reason |-> "none"]
                  ELSE IF ~out.editor THEN [ok |-> FALSE, reason |-> "no editor found"]
                  ELSE [ok |-> TRUE, reason |-> "none"]
    IN  [st EXCEPT !.last = [op |-> "sendResult", s |-> s, call |-> rec.id, page |-> out,
                             status |-> IF result.ok THEN 200 ELSE 500, body |-> result]]

resume(st, s, rec, out) ==
    IF rec.kind = "enable"
    THEN IF out = "result" THEN SetPass(st, rec.owner, [pc |-> "sleep"])
         ELSE nextTarget(st, rec.owner)
    ELSE IF rec.kind = "css"
    THEN createEntry(st, rec.owner, s, IF out = "result" THEN "css" ELSE "")
    ELSE IF rec.kind = "meta"
    THEN IF out.found
         THEN metaDone(st, rec.owner, s,
                       [found |-> TRUE, chatTitle |-> out.chatTitle,
                        contextId |-> IF rec.stage = "cached"
                                      THEN st.cdp[s].rootContextId ELSE rec.ctx])
         ELSE IF rec.stage = "cached"
         THEN scanContexts(IF out.chatTitle = "error"
                           THEN [st EXCEPT !.cdp[s].rootContextId = NoCtx,
                                           !.pass[rec.owner].touched =
                                               IF st.cdp[s].rootContextId # NoCtx
                                               THEN @ \cup {IdOf[st.pass[rec.owner].url]}
                                               ELSE @]
                           ELSE st,
                           rec.owner, s, 1)
         ELSE scanContexts(st, rec.owner, s, rec.idx + 1)
    ELSE IF rec.kind = "inject"
    THEN sendDone(st, s, rec, out)
    ELSE IF out.title = "error"
         THEN st
         ELSE IF rec.owner = "watch"
         THEN snapshotCapturedWatched(st, s, out)
         ELSE snapshotCaptured(st, s, out)

Outcomes(rec) ==
    IF rec.kind = "meta" THEN MetaOutcomes
    ELSE IF rec.kind = "html" THEN HtmlOutcomes
    ELSE IF rec.kind = "inject" THEN InjectOutcomes
    ELSE {"result", "error"}

Failed(rec, out) ==
    IF rec.kind = "meta" THEN out.chatTitle = "error"
    ELSE IF rec.kind = "html" THEN out.title = "error"
    ELSE IF rec.kind = "inject" THEN out.kind = "error"
    ELSE out = "error"

\* Mutant: the listeners do not compare ids, one response completes every call.
RespondAny(s, rec, out) ==
    /\ rec \in cdp[s].pending
    /\ out \in Outcomes(rec)
    /\ \/ cdp[s].ws = "open" /\ rec.sent
       \/ ~rec.sent /\ Failed(rec, out)
    /\ Step(resume([State EXCEPT !.cdp[s].pending = {}], s, rec, out))

Respond(s, rec, out) ==
    /\ rec \in cdp[s].pending
    /\ out \in Outcomes(rec)
    /\ \/ cdp[s].ws = "open" /\ rec.sent
       \/ ~rec.sent /\ Failed(rec, out)
    /\ Step(resume([State EXCEPT !.cdp[s].pending = @ \ {rec}], s, rec, out))

\* setInterval(updateSnapshots)
PollStart ==
    /\ Values(cascades) # {}
    /\ Spend("poll")
    /\ Apply(updateSnapshots(State))

\* The target closes the transport, or the transport errors.
TransportClose(s) ==
    /\ cdp[s].ws = "open"
    /\ Spend("fault")
    /\ Apply(wsClose(State, s))

\* Runtime.executionContextCreated / Runtime.executionContextDestroyed
ContextCreated(s, c) ==
    /\ cdp[s].ws = "open"
    /\ cdp[s].idCounter > 1
    /\ c = cdp[s].announced + 1
    /\ Step([State EXCEPT !.cdp[s].contexts = Append(@, c), !.cdp[s].announced = c])

ContextDestroyed(s, c) ==
    /\ cdp[s].ws = "open"
    /\ \E i \in 1..Len(cdp[s].contexts) : cdp[s].contexts[i] = c
    /\ Spend("fault")
    /\ Apply([State EXCEPT !.cdp[s].contexts = SelectSeq(@, LAMBDA x : x # c)])

\* ------------------------------------------------------------- specification
TargetLists == {<<>>} \cup {<<t>> : t \in Targets}
               \cup {q \in {<<t, u>> : t \in Targets, u \in Targets} : q[1] # q[2]}

Init ==
    /\ cascades = EmptyMap
    /\ cdp = [s \in Sessions |-> FreshCdp]
    /\ entry = [s \in Sessions |-> FreshEntry]
    /\ pass = [p \in Passes |-> IdlePass]
    /\ emitted = <<>>
    /\ last = NoLast
    /\ budget = [discover |-> MaxDiscover, poll |-> MaxPolls, fault |-> MaxFaults,
                 callId |-> MaxCallId, api |-> 0]
    /\ hin = <<>>
    /\ hout = <<>>
    /\ Aside

Next ==
    \/ \E p \in Passes : DiscoverStart(p)
    \/ \E p \in Passes, reach \in SUBSET PortSet, listed \in TargetLists :
          DiscoverFetched(p, reach, listed)
    \/ \E p \in Passes : ConnectOpen(p)
    \/ \E p \in Passes : ConnectError(p)
    \/ \E p \in Passes : SleepDone(p)
    \/ \E s \in Sessions : \E rec \in cdp[s].pending : \E out \in Outcomes(rec) :
          Respond(s, rec, out)
    \/ PollStart
    \/ \E s \in Sessions : TransportClose(s)
    \/ \E s \in Sessions, c \in CtxIds : ContextCreated(s, c)
    \/ \E s \in Sessions, c \in CtxIds : ContextDestroyed(s, c)

Spec == Init /\ [][Next]_vars

\* ------------------------------------------------------------- hash exploration
\* hashString applied to a string s and to t, one single-character edit of s.
Hashed(s, t, edit) ==
    /\ hin' = [s |-> s, t |-> t, edit |-> edit]
    /\ hout' = [s |-> hashString(s), t |-> hashString(t)]
    /\ UNCHANGED <<cascades, cdp, entry, pass, emitted, last, budget,
                 clients, watchedCascadeId, auth, ext, server>>

Extend(c) ==
    /\ Len(hin.s) < MaxLen
    /\ Hashed(Append(hin.s, c), Append(hin.s, c), "none")

Substitute(i, c) ==
    /\ i \in 1..Len(hin.s)
    /\ c # hin.s[i]
    /\ Hashed(hin.s, [hin.s EXCEPT ![i] = c], "substitution")

Insert(i, c) ==
    /\ i \in 0..Len(hin.s)
    /\ Hashed(hin.s, SubSeq(hin.s, 1, i) \o <<c>> \o SubSeq(hin.s, i + 1, Len(hin.s)),
              "insertion")

Delete(i) ==
    /\ i \in 1..Len(hin.s)
    /\ Hashed(hin.s, SubSeq(hin.s, 1, i - 1) \o SubSeq(hin.s, i + 1, Len(hin.s)), "deletion")

HashInit ==
    /\ cascades = EmptyMap
    /\ cdp = [s \in Sessions |-> FreshCdp]
    /\ entry = [s \in Sessions |-> FreshEntry]
    /\ pass = [p \in Passes |-> IdlePass]
    /\ emitted = <<>>
    /\ last = NoLast
    /\ budget = [discover |-> 0, poll |-> 0, fault |-> 0, callId |-> 0, api |-> 0]
    /\ hin = [s |-> <<>>, t |-> <<>>, edit |-> "none"]
    /\ hout = [s |-> hashString(<<>>), t |-> hashString(<<>>)]
    /\ Aside

HashNext ==
    \/ \E c \in Chars : Extend(c)
    \/ \E i \in 1..MaxLen, c \in Chars : Substitute(i, c)
    \/ \E i \in 0..MaxLen, c \in Chars : Insert(i, c)
    \/ \E i \in 1..MaxLen : Delete(i)

HashSpec == HashInit /\ [][HashNext]_vars

\* ------------------------------------------------------------- titles
\* Strings are sequences of characters.  \s of the regular expressions and the
\* characters trim removes:
White == {" ", "\n", "\t"}
UpperCase == <<"A", "B", "C", "D", "E", "F", "G", "H", "I", "J", "K", "L", "M",
              "N", "O", "P", "Q", "R", "S", "T", "U", "V", "W", "X", "Y", "Z">>
LowerCase == <<"a", "b", "c", "d", "e", "f", "g", "h", "i", "j", "k", "l", "m",
              "n", "o", "p", "q", "r", "s", "t", "u", "v", "w", "x", "y", "z">>
toLowerCase(c) ==
    IF \E i \in 1..26 : UpperCase[i] = c
    THEN LowerCase[CHOOSE i \in 1..26 : UpperCase[i] = c]
    ELSE c

\* String.prototype.trim
trim(str) ==
    LET black == {i \in 1..Len(str) : str[i] \notin White}
    IN  IF black = {} THEN <<>>
        ELSE SubSeq(str, CHOOSE i \in black : \A j \in black : i <= j,
                         CHOOSE i \in black : \A j \in black : i >= j)

\* replace(/\s+/g, ' ') on the characters lo..hi of str: a character that is
\* not whitespace stays, the first of a run of whitespace becomes a space and
\* the others of the run go.
RECURSIVE replaceWhite(_, _, _)
replaceWhite(str, lo, hi) ==
    IF lo > hi THEN <<>>
    ELSE IF lo = hi
    THEN IF str[lo] \notin White THEN <<str[lo]>>
         ELSE IF lo > 1 /\ str[lo - 1] \in White THEN <<>>
         ELSE <<" ">>
    ELSE LET mid == (lo + hi) \div 2
         IN  replaceWhite(str, lo, mid) \o replaceWhite(str, mid + 1, hi)

\* An absent value (null, undefined) is the empty string here, as in (value || '').
normalizeText(value) == trim(replaceWhite(value, 1, Len(value)))

\* The list bad of isGoodTitle.  alts: the strings the expression matches at the
\* start of the text; end: the expression ends with $.
bad == <<[alts |-> {<<"n", "e", "w", " ", "c", "h", "a", "t">>}, end |-> FALSE],
         [alts |-> {<<"n", "e", "w", " ", "c", "o", "n", "v", "e", "r", "s", "a", "t", "i", "o", "n">>}, end |-> FALSE],
         [alts |-> {<<"p", "a", "s", "t", " ", "c", "h", "a", "t">>,
                    <<"p", "a", "s", "t", " ", "c", "h", "a", "t", "s">>}, end |-> FALSE],
         [alts |-> {<<"v", "i", "e", "w", " ", "a", "l", "l">>}, end |-> FALSE],
         [alts |-> {<<"p", "l", "a", "n">>}, end |-> FALSE],
         [alts |-> {<<"l", "o", "c", "a", "l">>}, end |-> TRUE],
         [alts |-> {<<"r", "u", "n", " ", "e", "v", "e", "r", "y", "t", "h", "i", "n", "g">>}, end |-> FALSE],
         [alts |-> {<<"s", "u", "c", "c", "e", "s", "s">>}, end |-> TRUE]>>

\* re.test(text) with the flag i
test(re, text) ==
    \E a \in re.alts :
        /\ Len(text) >= Len(a)
        /\ re.end => Len(text) = Len(a)
        /\ \A i \in 1..Len(a) : toLowerCase(text[i]) = a[i]

\* Mutant: the expressions lack the flag i.
isGoodTitleCaseSensitive(value) ==
    LET text == normalizeText(value)
        testCase(re) == \E a \in re.alts :
                           /\ Len(text) >= Len(a)
                           /\ re.end => Len(text) = Len(a)
                           /\ \A i \in 1..Len(a) : text[i] = a[i]
    IN  IF Len(text) < 3 \/ Len(text) > 80 THEN FALSE
        ELSE ~ \E k \in 1..Len(bad) : testCase(bad[k])

isGoodTitle(value) ==
    LET text == normalizeText(value)
    IN  IF Len(text) < 3 \/ Len(text) > 80 THEN FALSE
        ELSE ~ \E k \in 1..Len(bad) : test(bad[k], text)

\* Title exploration: the validator applied to strings put together from
\* whitespace, a word, a long run of one letter and single letters, in any order.
Words == {<<"N", "e", "w", " ", "C", "h", "a", "t">>,
          <<"N", "E", "W", " ", "C", "H", "A", "T">>,
          <<"n", "e", "w", " ", "c", "o", "n", "v", "e", "r", "s", "a", "t", "i", "o", "n">>,
          <<"P", "a", "s", "t", " ", "C", "h", "a", "t", "s">>,
          <<"p", "a", "s", "t", " ", "c", "h", "a", "t">>,
          <<"V", "i", "e", "w", " ", "A", "l", "l">>,
          <<"P", "l", "a", "n">>,
          <<"p", "L", "A", "N">>,
          <<"l", "o", "c", "a", "l">>,
          <<"L", "o", "c", "a", "l">>,
          <<"R", "u", "n", " ", "E", "v", "e", "r", "y", "t", "h", "i", "n", "g">>,
          <<"S", "U", "C", "C", "E", "S", "S">>,
          <<"F", "i", "x">>,
          <<"o", "k">>}
TitleChars == {" ", "\n", "s"}
Run(n) == [i \in 1..n |-> "x"]

Validated(value, word, extra, padded) ==
    /\ hin' = [value |-> value, word |-> word, extra |-> extra, padded |-> padded]
    /\ hout' = [text |-> normalizeText(value), good |-> isGoodTitle(value)]
    /\ UNCHANGED <<cascades, cdp, entry, pass, emitted, last, budget,
                 clients, watchedCascadeId, auth, ext, server>>

AppendChar(c) ==
    /\ hin.extra < MaxExtra
    /\ Validated(Append(hin.value, c), hin.word, hin.extra + 1, hin.padded)

PutWord(w) ==
    /\ ~hin.word
    /\ Validated(hin.value \o w, TRUE, hin.extra, hin.padded)

Pad ==
    /\ ~hin.padded
    /\ Validated(hin.value \o Run(PadLen), hin.word, hin.extra, TRUE)

TitleInit ==
    /\ cascades = EmptyMap
    /\ cdp = [s \in Sessions |-> FreshCdp]
    /\ entry = [s \in Sessions |-> FreshEntry]
    /\ pass = [p \in Passes |-> IdlePass]
    /\ emitted = <<>>
    /\ last = NoLast
    /\ budget = [discover |-> 0, poll |-> 0, fault |-> 0, callId |-> 0, api |-> 0]
    /\ hin = [value |-> <<>>, word |-> FALSE, extra |-> 0, padded |-> FALSE]
    /\ hout = [text |-> normalizeText(<<>>), good |-> isGoodTitle(<<>>)]
    /\ Aside

TitleNext ==
    \/ \E c \in TitleChars : AppendChar(c)
    \/ \E w \in Words : PutWord(w)
    \/ Pad

TitleSpec == TitleInit /\ [][TitleNext]_vars

\* ------------------------------------------------------------- title selection
\* What the probe script meets in a page: which chat root there is (app), and
\* the text of the elements it queries; <<>> where there is no such element.
Agent == <<"A", "g", "e", "n", "t">>
CursorChat == <<"C", "u", "r", "s", "o", "r", " ", "C", "h", "a", "t">>
Apps == {"antigravity", "cursor", "none"}
ExplicitTexts == {<<>>,
                 <<"F", "i", "x", " ", "b", "u", "g">>,
                 <<"N", "e", "w", " ", "C", "h", "a", "t">>}
HumanTexts == {<<>>,
              <<"A", "d", "d", " ", "t", "e", "s", "t", "s">>,
              <<"P", "l", "a", "n">>}
NodeTexts == {<<>>,
             <<"H", "e", "l", "l", "o", " ", "t", "h", "e", "r", "e">>,
             <<"o", "k">>}
HistoryTexts == {<<>>,
                <<"R", "e", "f", "a", "c", "t", "o", "r">>,
                <<"P", "a", "s", "t", " ", "C", "h", "a", "t", "s">>}
PaneTitles == {<<>>, <<"C", "h", "a", "t">>,
               <<"I", "t", "\n", "w", "o", "r", "k", "s">>, Run(81)}
HeaderTexts == {<<" ", " ", " ", " ">>,
               <<"R", "e", "l", "e", "a", "s", "e", " ", "n", "o", "t", "e", "s">>,
               <<"N", "e", "w", " ", "C", "h", "a", "t">>}
\* The texts of the elements that 'h1', 'h2', 'header', '[class*="title"]' find,
\* in that order.
HeaderLists == {<<>>} \cup {<<h>> : h \in HeaderTexts}
               \cup {<<h, g>> : h \in HeaderTexts, g \in HeaderTexts}

\* a || b on strings
Or(a, b) == IF a # <<>> THEN a ELSE b

\* getExplicitCursorTitle, getExplicitAntigravityTitle: null unless a good title
getExplicitTitle(page) ==
    LET text == normalizeText(page.explicit)
    IN  IF isGoodTitle(text) THEN text ELSE <<>>

pickFirstMessage(page) ==
    LET human == normalizeText(page.human)
        node == normalizeText(page.node)
    IN  IF page.human # <<>> /\ isGoodTitle(human) THEN human
        ELSE IF page.node # <<>> /\ isGoodTitle(node) THEN node
        ELSE <<>>

\* The loop over possibleTitleSelectors
RECURSIVE headerTitle(_)
headerTitle(headers) ==
    IF headers = <<>> THEN <<>>
    ELSE IF Len(Head(headers)) > 2 /\ Len(Head(headers)) < 50 THEN trim(Head(headers))
    ELSE headerTitle(Tail(headers))

\* split('\n')[0]
firstLine(str) ==
    LET breaks == {i \in 1..Len(str) : str[i] = "\n"}
    IN  IF breaks = {} THEN str
        ELSE SubSeq(str, 1, (CHOOSE i \in breaks : \A j \in breaks : i <= j) - 1)

\* The value of SCRIPT in the page: found and chatTitle.
probe(page) ==
    IF page.app = "antigravity"
    THEN [found |-> TRUE,
          chatTitle |-> Or(getExplicitTitle(page),
                           Or(pickFirstMessage(page), Or(headerTitle(page.headers), Agent)))]
    ELSE IF page.app = "cursor"
    THEN LET titleText == trim(page.paneTitle)
             historyTitle == trim(page.history)
             inferredTitle == trim(firstLine(Or(getExplicitTitle(page),
                                  Or(historyTitle, Or(pickFirstMessage(page), titleText)))))
         IN  [found |-> TRUE,
              chatTitle |-> IF Len(inferredTitle) > 1 THEN inferredTitle ELSE CursorChat]
    ELSE [found |-> FALSE, chatTitle |-> <<>>]

Probed(page) ==
    /\ hin' = page
    /\ hout' = probe(page)
    /\ UNCHANGED <<cascades, cdp, entry, pass, emitted, last, budget,
                 clients, watchedCascadeId, auth, ext, server>>

SetApp(a) == a # hin.app /\ Probed([hin EXCEPT !.app = a])
SetExplicit(t) == t # hin.explicit /\ Probed([hin EXCEPT !.explicit = t])
SetHuman(t) == t # hin.human /\ Probed([hin EXCEPT !.human = t])
SetNode(t) == t # hin.node /\ Probed([hin EXCEPT !.node = t])
SetHistory(t) == t # hin.history /\ Probed([hin EXCEPT !.history = t])
SetPaneTitle(t) == t # hin.paneTitle /\ Probed([hin EXCEPT !.paneTitle = t])
SetHeaders(h) == h # hin.headers /\ Probed([hin EXCEPT !.headers = h])

EmptyPage == [app |-> "none", explicit |-> <<>>, human |-> <<>>, node |-> <<>>,
              history |-> <<>>, paneTitle |-> <<>>, headers |-> <<>>]

PageInit ==
    /\ cascades = EmptyMap
    /\ cdp = [s \in Sessions |-> FreshCdp]
    /\ entry = [s \in Sessions |-> FreshEntry]
    /\ pass = [p \in Passes |-> IdlePass]
    /\ emitted = <<>>
    /\ last = NoLast
    /\ budget = [discover |-> 0, poll |-> 0, fault |-> 0, callId |-> 0, api |-> 0]
    /\ hin = EmptyPage
    /\ hout = probe(EmptyPage)
    /\ Aside

PageNext ==
    \/ \E a \in Apps : SetApp(a)
    \/ \E t \in ExplicitTexts : SetExplicit(t)
    \/ \E t \in HumanTexts : SetHuman(t)
    \/ \E t \in NodeTexts : SetNode(t)
    \/ \E t \in HistoryTexts : SetHistory(t)
    \/ \E t \in PaneTitles : SetPaneTitle(t)
    \/ \E h \in HeaderLists : SetHeaders(h)

PageSpec == PageInit /\ [][PageNext]_vars

\* ------------------------------------------------------------- host-UI shape
\* What the scripts meet in a document: the chat roots (#cascade, the
\* [id^="workbench.panel.aichat"] panel), the editors in them, where the first
\* textarea of the document is, and where the first send button is.
Docs ==
    {d \in [cascade : BOOLEAN, cascadeEditor : BOOLEAN, cursorPanel : BOOLEAN,
            cursorEditor : {"none", ".aislash-editor-input", "textbox"},
            textarea : {"none", "cascade", "cursorPanel", "document"},
            button : {"none", "cursorPanel", "document"}] :
        /\ d.cascadeEditor => d.cascade
        /\ d.cursorEditor # "none" => d.cursorPanel
        /\ d.textarea = "cascade" => d.cascade
        /\ d.textarea = "cursorPanel" => d.cursorPanel
        /\ d.button = "cursorPanel" => d.cursorPanel}

\* extractMetadata's SCRIPT: the root whose shape it reports.
shapeRoot(d) ==
    IF d.cascade THEN "cascade" ELSE IF d.cursorPanel THEN "cursorPanel" ELSE "none"

\* injectMessage's SCRIPT: the root of the editor it types into and where it
\* submits (a button, or Enter on the editor).
composer(d) ==
    LET editor == IF d.cursorEditor # "none" THEN "cursorPanel"
                  ELSE IF d.cascadeEditor THEN "cascade"
                  ELSE d.textarea
    IN  IF d.cursorPanel /\ d.cursorEditor = "none"
        THEN [ok |-> FALSE, reason |-> "cursor editor not found", editor |-> "none",
              submit |-> "none"]
        ELSE IF editor = "none"
        THEN [ok |-> FALSE, reason |-> "no editor found", editor |-> "none",
              submit |-> "none"]
        ELSE [ok |-> TRUE, reason |-> "none", editor |-> editor,
              submit |-> IF d.button = "none" THEN "Enter" ELSE d.button]

\* The document changes in one respect; both scripts run in it.
SetDoc(d) ==
    /\ Cardinality({f \in DOMAIN d : d[f] # hin[f]}) = 1
    /\ hin' = d
    /\ hout' = [extracted |-> shapeRoot(d), injected |-> composer(d)]
    /\ UNCHANGED <<cascades, cdp, entry, pass, emitted, last, budget,
                   clients, watchedCascadeId, auth, ext, server>>

EmptyDoc == [cascade |-> FALSE, cascadeEditor |-> FALSE, cursorPanel |-> FALSE,
             cursorEditor |-> "none", textarea |-> "none", button |-> "none"]

ShapeInit ==
    /\ cascades = EmptyMap
    /\ cdp = [s \in Sessions |-> FreshCdp]
    /\ entry = [s \in Sessions |-> FreshEntry]
    /\ pass = [p \in Passes |-> IdlePass]
    /\ emitted = <<>>
    /\ last = NoLast
    /\ budget = [discover |-> 0, poll |-> 0, fault |-> 0, callId |-> 0, api |-> 0]
    /\ hin = EmptyDoc
    /\ hout = [extracted |-> shapeRoot(EmptyDoc), injected |-> composer(EmptyDoc)]
    /\ Aside

ShapeNext == \E d \in Docs : SetDoc(d)

ShapeSpec == ShapeInit /\ [][ShapeNext]_vars

\* ------------------------------------------------------------- established engine
\* The engine once a first pass has found target A: one cascade, its session
\* enabled (call 1), identified in context 1 (call 2) and styled (call 3).
\* PollSpec runs the same program from there, with room for repeated captures.
Established ==
    /\ cascades = [i \in Ids |-> IF i = IdOf[TargetA.webSocketDebuggerUrl] THEN 1 ELSE NoSession]
    /\ cdp = [s \in Sessions |->
                IF s = 1
                THEN [ws |-> "open", url |-> TargetA.webSocketDebuggerUrl, idCounter |-> 4,
                      pending |-> {}, contexts |-> <<1>>, rootContextId |-> 1,
                      announced |-> 1, issued |-> <<1, 2, 3>>]
                ELSE FreshCdp]
    /\ entry = [s \in Sessions |->
                  IF s = 1
                  THEN [exists |-> TRUE, id |-> IdOf[TargetA.webSocketDebuggerUrl],
                        chatTitle |-> "Fix bug", snapshot |-> NoSnap, css |-> "css",
                        snapshotHash |-> NoHash, removed |-> FALSE]
                  ELSE FreshEntry]
    /\ pass = [p \in Passes |-> IdlePass]

PollInit ==
    /\ Established
    /\ emitted = <<>>
    /\ last = NoLast
    /\ budget = [discover |-> 1, poll |-> MaxCaptures, fault |-> MaxFaults,
                 callId |-> 4 + MaxCaptures, api |-> 0]
    /\ hin = <<>>
    /\ hout = <<>>
    /\ Aside

PollSpec == PollInit /\ [][Next]_vars

\* The same program from the established state with room for two discovery
\* passes, which may overlap, and one poll.
OverlapInit ==
    /\ Established
    /\ emitted = <<>>
    /\ last = NoLast
    /\ budget = [discover |-> MaxDiscover, poll |-> MaxPolls, fault |-> MaxFaults,
                 callId |-> MaxCallId + 1, api |-> 0]
    /\ hin = <<>>
    /\ hout = <<>>
    /\ Aside

OverlapSpec == OverlapInit /\ [][Next]_vars

\* ------------------------------------------------------------- faulty answers
\* A workbench target that /json/list reports without a webSocketDebuggerUrl.
TargetNoUrl == [webSocketDebuggerUrl |-> NoUrl, port |-> 9002]
FaultLists == {<<TargetNoUrl>>, <<TargetNoUrl, TargetA>>, <<TargetA, TargetNoUrl>>,
               <<TargetB, TargetNoUrl, TargetA>>}

\* The port queries have settled and one listed target has no transport URL.
DiscoverFetchedNoUrl(p, listed) ==
    /\ pass[p].pc = "fetch"
    /\ Step(nextTarget(SetPass(State, p,
                [targets |-> listed,
                 cands |-> {IdOf[listed[i].webSocketDebuggerUrl] :
                               i \in {k \in 1..Len(listed) :
                                         listed[k].webSocketDebuggerUrl # NoUrl}}]), p))

\* Port badPort answered with well-formed JSON that is not an array: getJson
\* resolves it, list.filter throws in that port's callback, Promise.all rejects.
\* listed is what the other ports listed.
DiscoverFetchedNonList(p, badPort, listed) ==
    /\ pass[p].pc = "fetch"
    /\ \A i \in 1..Len(listed) : listed[i].port # badPort
    /\ Step(abort(SetPass(State, p,
                [targets |-> listed,
                 cands |-> {IdOf[listed[i].webSocketDebuggerUrl] : i \in 1..Len(listed)}]),
              p, TRUE))

FaultInit ==
    /\ cascades = EmptyMap
    /\ cdp = [s \in Sessions |-> FreshCdp]
    /\ entry = [s \in Sessions |-> FreshEntry]
    /\ pass = [p \in Passes |-> IdlePass]
    /\ emitted = <<>>
    /\ last = NoLast
    /\ budget = [discover |-> 1, poll |-> MaxPolls, fault |-> MaxFaults,
                 callId |-> MaxCallId, api |-> 0]
    /\ hin = <<>>
    /\ hout = <<>>
    /\ Aside

FaultNext ==
    \/ Next
    \/ \E p \in Passes, listed \in FaultLists : DiscoverFetchedNoUrl(p, listed)
    \/ \E p \in Passes, badPort \in PortSet, listed \in TargetLists :
          DiscoverFetchedNonList(p, badPort, listed)

FaultSpec == FaultInit /\ [][FaultNext]_vars

\* ------------------------------------------------------------- inbound messages
\* A response {id, ...} arrives on the transport of s whose id was issued and is
\* no longer awaited (the target repeats a response): every listener still
\* registered compares it with its own id and none matches.
RepeatedResponse(s, id) ==
    /\ cdp[s].ws = "open"
    /\ \E i \in 1..Len(cdp[s].issued) : cdp[s].issued[i] = id
    /\ \A rec \in cdp[s].pending : rec.id # id
    /\ Spend("fault")
    /\ Apply([State EXCEPT !.last = [op |-> "ignored", s |-> s, id |-> id]])

\* The established engine with one discovery pass, one poll and two disturbances.
MsgInit ==
    /\ Established
    /\ emitted = <<>>
    /\ last = NoLast
    /\ budget = [discover |-> 1, poll |-> MaxPolls, fault |-> MaxFaults + 1,
                 callId |-> MaxCallId + 2, api |-> 0]
    /\ hin = <<>>
    /\ hout = <<>>
    /\ Aside

MsgNext ==
    \/ Next
    \/ \E s \in Sessions, id \in 1..(MaxCallId + 2) : RepeatedResponse(s, id)

MsgSpec == MsgInit /\ [][MsgNext]_vars

\* ------------------------------------------------------------- subscribers
\* wss.on('connection'): a client has connected; the list is broadcast.
Connection(c) ==
    /\ clients[c].readyState = "none"
    /\ Step(broadcastCascadeList([State EXCEPT !.clients[c].readyState = "open",
                                                !.last = [op |-> "connection", c |-> c]]))

\* A client goes away.
ClientClose(c) ==
    /\ clients[c].readyState = "open"
    /\ Step([State EXCEPT !.clients[c].readyState = "closed"])

\* The established engine with one discovery pass and one poll, no client yet.
SubInit ==
    /\ Established
    /\ emitted = <<>>
    /\ last = NoLast
    /\ budget = [discover |-> 1, poll |-> MaxPolls, fault |-> MaxFaults,
                 callId |-> MaxCallId, api |-> 0]
    /\ hin = <<>>
    /\ hout = <<>>
    /\ Aside

SubNext ==
    \/ Next
    \/ \E c \in Subscribers : Connection(c)
    \/ \E c \in Subscribers : ClientClose(c)

SubSpec == SubInit /\ [][SubNext]_vars

\* ------------------------------------------------------------- HTTP API
\* An identity no target hashes to, and the identities requests are made with.
MissingId == <<"m", "i", "s", "s", "i", "n", "g">>
ReqIds == Ids \cup {MissingId}
\* cascades.get(id)
Get(map, id) == IF id \in Ids THEN map[id] ELSE NoSession

\* injectMessage up to its await.
injectMessage(st, s) == call(st, s, "inject", "send", "none", 0, st.cdp[s].rootContextId)

\* Mutant: an unknown id falls back to the first entry, as GET /snapshot does.
sendRouteFirst(st, id) ==
    LET vals == Values(st.cascades)
        s == IF Get(st.cascades, id) # NoSession THEN Get(st.cascades, id)
             ELSE IF vals = {} THEN NoSession
             ELSE CHOOSE x \in vals : \A y \in vals : x <= y
    IN  IF s = NoSession
        THEN [st EXCEPT !.last = [op |-> "send", id |-> id, status |-> 404,
                                  body |-> "Cascade not found"]]
        ELSE [injectMessage(st, s) EXCEPT
                 !.last = [op |-> "send", id |-> id, status |-> 0, body |-> "pending"]]

\* POST /send/:id up to "await injectMessage".
sendRoute(st, id) ==
    LET s == Get(st.cascades, id)
    IN  IF s = NoSession
        THEN [st EXCEPT !.last = [op |-> "send", id |-> id, status |-> 404,
                                  body |-> "Cascade not found"]]
        ELSE [injectMessage(st, s) EXCEPT
                 !.last = [op |-> "send", id |-> id, status |-> 0, body |-> "pending"]]

\* GET /snapshot/:id
snapshotRoute(st, id) ==
    LET s == Get(st.cascades, id)
    IN  IF s = NoSession \/ st.entry[s].snapshot = NoSnap
        THEN [st EXCEPT !.last = [op |-> "snapshot", id |-> id, status |-> 404,
                                  s |-> NoSession, body |-> NoSnap]]
        ELSE [st EXCEPT !.last = [op |-> "snapshot", id |-> id, status |-> 200,
                                  s |-> s, body |-> st.entry[s].snapshot]]

SendMessage(id) ==
    /\ Spend("api")
    /\ Apply(sendRoute(State, id))

GetSnapshot(id) ==
    /\ Spend("api")
    /\ Apply(snapshotRoute(State, id))

\* The established state after one poll has stored the snapshot "Aa" (call 4).
EstablishedWithSnapshot ==
    /\ cascades = [i \in Ids |-> IF i = IdOf[TargetA.webSocketDebuggerUrl] THEN 1 ELSE NoSession]
    /\ cdp = [s \in Sessions |->
                IF s = 1
                THEN [ws |-> "open", url |-> TargetA.webSocketDebuggerUrl, idCounter |-> 5,
                      pending |-> {}, contexts |-> <<1>>, rootContextId |-> 1,
                      announced |-> 1, issued |-> <<1, 2, 3, 4>>]
                ELSE FreshCdp]
    /\ entry = [s \in Sessions |->
                  IF s = 1
                  THEN [exists |-> TRUE, id |-> IdOf[TargetA.webSocketDebuggerUrl],
                        chatTitle |-> "Fix bug",
                        snapshot |-> [html |-> <<65, 97>>, title |-> "null"], css |-> "css",
                        snapshotHash |-> hashString(<<65, 97>>), removed |-> FALSE]
                  ELSE FreshEntry]
    /\ pass = [p \in Passes |-> IdlePass]

ApiInit ==
    /\ EstablishedWithSnapshot
    /\ emitted = <<>>
    /\ last = NoLast
    /\ budget = [discover |-> 1, poll |-> MaxPolls, fault |-> MaxFaults,
                 callId |-> MaxCallId + 2, api |-> MaxRequests]
    /\ hin = <<>>
    /\ hout = <<>>
    /\ Aside

\* The same with room for two discovery passes, which may overlap, and one request.
ServeInit ==
    /\ EstablishedWithSnapshot
    /\ emitted = <<>>
    /\ last = NoLast
    /\ budget = [discover |-> MaxDiscover, poll |-> MaxPolls, fault |-> MaxFaults,
                 callId |-> MaxCallId + 1, api |-> 1]
    /\ hin = <<>>
    /\ hout = <<>>
    /\ Aside

ApiNext ==
    \/ Next
    \/ \E id \in ReqIds : SendMessage(id)
    \/ \E id \in ReqIds : GetSnapshot(id)

ApiSpec == ApiInit /\ [][ApiNext]_vars
ServeSpec == ServeInit /\ [][ApiNext]_vars

\* The event loop runs a callback whenever one is ready: the program does not
\* stop while a timer, a connection event, a request or a response is outstanding.
FairApiSpec == ApiInit /\ [][ApiNext]_vars /\ WF_vars(ApiNext)

\* The event loop runs a callback whenever one is ready: the program does not
\* stop while a timer, a connection event or a response is outstanding.
FairPollSpec == PollInit /\ [][Next]_vars /\ WF_vars(Next)

\* ------------------------------------------------------------- unanswered calls
\* The established engine running one discovery pass, undisturbed.
HangInit ==
    /\ Established
    /\ emitted = <<>>
    /\ last = NoLast
    /\ budget = [discover |-> 1, poll |-> 0, fault |-> 0, callId |-> MaxCallId + 2, api |-> 0]
    /\ hin = <<>>
    /\ hout = <<>>
    /\ Aside

HangNext ==
    \/ \E p \in Passes : DiscoverStart(p)
    \/ \E p \in Passes, reach \in SUBSET PortSet, listed \in TargetLists :
          DiscoverFetched(p, reach, listed)
    \/ \E p \in Passes : ConnectOpen(p)
    \/ \E p \in Passes : ConnectError(p)
    \/ \E p \in Passes : SleepDone(p)
    \/ \E s \in Sessions : \E rec \in cdp[s].pending : \E out \in Outcomes(rec) :
          Respond(s, rec, out)
    \/ \E s \in Sessions, c \in CtxIds : ContextCreated(s, c)

\* The steps the program takes by itself: the discovery timer fires, every port
\* query settles (getJson gives up after 2 s), the 500 ms wait of connectCDP
\* ends.  Whether a transport opens and whether a call is answered is up to the
\* target.
Scheduled ==
    \/ \E p \in Passes : DiscoverStart(p)
    \/ \E p \in Passes, reach \in SUBSET PortSet, listed \in TargetLists :
          DiscoverFetched(p, reach, listed)
    \/ \E p \in Passes : SleepDone(p)

FairHangSpec == HangInit /\ [][HangNext]_vars /\ WF_vars(Scheduled)

\* ------------------------------------------------------------- extension server: watch
\* Mutant: every cascade is polled, watched or not.
updateSnapshotsEvery(st) ==
    LET polled == {s \in Values(st.cascades) : st.cdp[s].rootContextId # NoCtx}
        issue(s) == call(st, s, "html", "watch", "none", 0, st.cdp[s].rootContextId).cdp[s]
    IN  [st EXCEPT !.cdp = [s \in Sessions |-> IF s \in polled THEN issue(s) ELSE st.cdp[s]],
                   !.ok = \A s \in polled : st.cdp[s].idCounter <= budget.callId]

\* updateSnapshots of the extension server up to its await: only the watched
\* cascade is captured, if there is one and it has a root context.
updateSnapshotsWatched(st) ==
    LET s == Get(st.cascades, st.watchedCascadeId)
    IN  IF st.watchedCascadeId = NoWatch \/ s = NoSession THEN st
        ELSE IF st.cdp[s].rootContextId = NoCtx THEN st
        ELSE call(st, s, "html", "watch", "none", 0, st.cdp[s].rootContextId)

\* POST /watch/:id
watchRoute(st, id) ==
    IF Get(st.cascades, id) = NoSession
    THEN [st EXCEPT !.last = [op |-> "watch", id |-> id, status |-> 404,
                              before |-> st.watchedCascadeId]]
    ELSE [st EXCEPT !.watchedCascadeId = id,
                    !.last = [op |-> "watch", id |-> id, status |-> 200,
                              before |-> st.watchedCascadeId]]

SetWatched(id) ==
    /\ Spend("api")
    /\ Apply(watchRoute(State, id))

\* setInterval(updateSnapshots) of the extension server
WatchedPollStart ==
    /\ Spend("poll")
    /\ Apply(updateSnapshotsWatched(State))

\* The extension server once discovery has found targets A and B: two cascades,
\* each session enabled, identified in context 1 and styled; nothing watched.
EstablishedTwo ==
    /\ cascades = [i \in Ids |-> IF i = IdOf[TargetA.webSocketDebuggerUrl] THEN 1
                                 ELSE IF i = IdOf[TargetB.webSocketDebuggerUrl] THEN 2
                                 ELSE NoSession]
    /\ cdp = [s \in Sessions |->
                [ws |-> "open",
                 url |-> IF s = 1 THEN TargetA.webSocketDebuggerUrl
                         ELSE TargetB.webSocketDebuggerUrl,
                 idCounter |-> 4, pending |-> {}, contexts |-> <<1>>, rootContextId |-> 1,
                 announced |-> 1, issued |-> <<1, 2, 3>>]]
    /\ entry = [s \in Sessions |->
                  [exists |-> TRUE,
                   id |-> IF s = 1 THEN IdOf[TargetA.webSocketDebuggerUrl]
                          ELSE IdOf[TargetB.webSocketDebuggerUrl],
                   chatTitle |-> "Agent", snapshot |-> NoSnap, css |-> "css",
                   snapshotHash |-> NoHash, removed |-> FALSE]]
    /\ pass = [p \in Passes |-> IdlePass]

WatchInit ==
    /\ EstablishedTwo
    /\ emitted = <<>>
    /\ last = NoLast
    /\ budget = [discover |-> 0, poll |-> MaxCaptures, fault |-> MaxFaults,
                 callId |-> 4 + MaxCaptures, api |-> MaxRequests]
    /\ hin = <<>>
    /\ hout = <<>>
    /\ Aside

WatchNext ==
    \/ \E id \in ReqIds : SetWatched(id)
    \/ WatchedPollStart
    \/ \E s \in Sessions : \E rec \in cdp[s].pending : \E out \in Outcomes(rec) :
          Respond(s, rec, out)
    \/ \E s \in Sessions : TransportClose(s)

WatchSpec == WatchInit /\ [][WatchNext]_vars

\* ------------------------------------------------------------- extension server: lifecycle
\* discover() is called: a pass starts.  Passes beyond the slots of Passes are
\* not followed.
discoverCall(st) ==
    LET idle == {p \in Passes : st.pass[p].pc = "idle"}
        p == IF idle = {} THEN 1 ELSE CHOOSE x \in idle : \A y \in idle : x <= y
    IN  IF idle = {} THEN st
        ELSE SetPass(st, p, [pc |-> "fetch",
                             dead |-> {s \in Values(st.cascades) : st.cdp[s].ws = "closed"}])

\* startServer up to "await main(port)"; main creates the WebSocket server and
\* calls discover().
startServer(st) ==
    IF st.server.currentServer
    THEN [st EXCEPT !.last = [op |-> "startServer", started |-> FALSE]]
    ELSE [discoverCall(st) EXCEPT !.server.wss = TRUE,
                                  !.server.awaiting = @ + 1,
                                  !.last = [op |-> "startServer", started |-> TRUE]]

\* startServer after "await main(port)": discover() again, the two interval
\* timers, currentServer.
startServerResumed(st) ==
    LET n == st.server.created
    IN  [discoverCall(st) EXCEPT
            !.server = [currentServer |-> TRUE, wss |-> TRUE,
                        discoveryInterval |-> n + 1, pollInterval |-> n + 2,
                        timers |-> st.server.timers
                                   \cup {[id |-> n + 1, fn |-> "discover"],
                                         [id |-> n + 2, fn |-> "updateSnapshots"]},
                        created |-> n + 2, awaiting |-> st.server.awaiting - 1],
            !.last = [op |-> "started"]]

\* stopServer: clearInterval of the two timers it knows, cascades.clear().
stopServer(st) ==
    [st EXCEPT
        !.server = [ServerStart EXCEPT
                       !.timers = {t \in st.server.timers :
                                      t.id \notin {st.server.discoveryInterval,
                                                   st.server.pollInterval}},
                       !.created = st.server.created,
                       !.awaiting = st.server.awaiting],
        !.cascades = EmptyMap,
        !.entry = [s \in Sessions |->
                      IF s \in Values(st.cascades) THEN [st.entry[s] EXCEPT !.removed = TRUE]
                      ELSE st.entry[s]],
        !.last = [op |-> "stopServer"]]

StartServer ==
    /\ Spend("life")
    /\ Apply(startServer(State))

StartServerResumed ==
    /\ server.awaiting > 0
    /\ Step(startServerResumed(State))

StopServer ==
    /\ Spend("life")
    /\ Apply(stopServer(State))

\* An interval timer fires.
TimerFired(t) ==
    /\ server.awaiting = 0
    /\ t \in server.timers
    /\ IF t.fn = "discover"
       THEN Spend("discover") /\ Apply(discoverCall(State))
       ELSE Spend("poll") /\ Apply(updateSnapshotsWatched(State))

\* What the ports list while this server runs.
LifeLists == {<<>>, <<TargetA>>}

\* The module as loaded: nothing started, the registry empty.
LifeInit ==
    /\ cascades = EmptyMap
    /\ cdp = [s \in Sessions |-> FreshCdp]
    /\ entry = [s \in Sessions |-> FreshEntry]
    /\ pass = [p \in Passes |-> IdlePass]
    /\ emitted = <<>>
    /\ last = NoLast
    /\ budget = [discover |-> 1, poll |-> MaxPolls, fault |-> 0, callId |-> MaxCallId,
                 api |-> 1, life |-> MaxLife]
    /\ hin = <<>>
    /\ hout = <<>>
    /\ Aside

\* The continuation of "await main" runs before any timer, request or network
\* event is handled: until then only the caller's own code runs, which may
\* call startServer and stopServer.
LifeNext ==
    \/ StartServer
    \/ StartServerResumed
    \/ StopServer
    \/ \E t \in server.timers : TimerFired(t)
    \/ \E id \in Ids : server.awaiting = 0 /\ SetWatched(id)
    \/ \E p \in Passes, listed \in LifeLists :
          server.awaiting = 0 /\ DiscoverFetched(p, PortSet, listed)
    \/ \E p \in Passes : server.awaiting = 0 /\ ConnectOpen(p)
    \/ \E p \in Passes : server.awaiting = 0 /\ SleepDone(p)
    \/ \E s \in Sessions : \E rec \in cdp[s].pending : \E out \in Outcomes(rec) :
          server.awaiting = 0 /\ Respond(s, rec, out)
    \/ \E s \in Sessions, c \in CtxIds : server.awaiting = 0 /\ ContextCreated(s, c)

LifeSpec == LifeInit /\ [][LifeNext]_vars

\* ------------------------------------------------------------- extension server: auth
\* Time is counted in days.
SESSION_DURATION == 7
Cookies == Tokens \cup {NoToken}
Routes == {"cascades", "snapshot", "styles", "watch", "send", "new-chat"}

\* createSession: a token nobody has seen yet.
createSession(a) ==
    LET free == {t \in Tokens : a.created[t] = NoExpiry}
        token == CHOOSE t \in free : \A u \in free : t <= u
    IN  [a EXCEPT !.sessions[token] = a.now + SESSION_DURATION,
                  !.created[token] = a.now]

\* isValidSession: its value, and the sessions map after it (an expired token
\* is deleted).
isValidSession(a, token) ==
    IF token = NoToken \/ a.sessions[token] = NoExpiry
    THEN [value |-> FALSE, auth |-> a]
    ELSE IF a.sessions[token] < a.now
    THEN [value |-> FALSE, auth |-> [a EXCEPT !.sessions[token] = NoExpiry]]
    ELSE [value |-> TRUE, auth |-> a]

\* authMiddleware for a request to an API route: whether next() is called.
authMiddleware(a, cookie) ==
    IF ~a.authEnabled THEN [next |-> TRUE, auth |-> a]
    ELSE LET v == isValidSession(a, cookie)
         IN  [next |-> v.value, auth |-> v.auth]

\* The token was created by a login and is not older than SESSION_DURATION.
Held(a, token) ==
    /\ token # NoToken
    /\ a.created[token] # NoExpiry
    /\ a.created[token] <= a.now
    /\ a.now <= a.created[token] + SESSION_DURATION

AuthStep(a, l) ==
    /\ auth' = a
    /\ last' = l
    /\ emitted' = <<>>
    /\ UNCHANGED <<cascades, cdp, entry, pass, budget, hin, hout,
                   clients, watchedCascadeId, ext, server>>

\* POST /login with a code that authenticator.verify accepts or rejects.
Login(accepted) ==
    /\ accepted => \E t \in Tokens : auth.created[t] = NoExpiry
    /\ AuthStep(IF accepted THEN createSession(auth) ELSE auth,
                [op |-> "login", accepted |-> accepted])

\* A request to an API route with a session cookie, or with none.
Request(route, cookie) ==
    LET r == authMiddleware(auth, cookie)
    IN  AuthStep(r.auth, [op |-> "request", route |-> route, cookie |-> cookie,
                          authEnabled |-> auth.authEnabled, held |-> Held(auth, cookie),
                          outcome |-> IF r.next THEN "next" ELSE "denied"])

\* setAuthEnabled, called by the extension.
SetAuthEnabled(enabled) ==
    /\ enabled # auth.authEnabled
    /\ AuthStep([auth EXCEPT !.authEnabled = enabled],
                [op |-> "setAuthEnabled", enabled |-> enabled])

\* A day passes.
Tick ==
    /\ auth.now < MaxNow
    /\ AuthStep([auth EXCEPT !.now = @ + 1], [op |-> "tick"])

\* The extension server with one cascade registered and the engine at rest.
AuthInit ==
    /\ Established
    /\ emitted = <<>>
    /\ last = NoLast
    /\ budget = [discover |-> 0, poll |-> 0, fault |-> 0, callId |-> 0, api |-> 0]
    /\ hin = <<>>
    /\ hout = <<>>
    /\ Aside

AuthNext ==
    \/ \E accepted \in BOOLEAN : Login(accepted)
    \/ \E route \in Routes, cookie \in Cookies : Request(route, cookie)
    \/ \E enabled \in BOOLEAN : SetAuthEnabled(enabled)
    \/ Tick
    \/ \E c \in Subscribers : Connection(c)

AuthSpec == AuthInit /\ [][AuthNext]_vars

\* ------------------------------------------------------------- VS Code extension
\* startTunnel: spawn cloudflared unless a tunnel process exists.  warned: the
\* caller has shown the security warning and got an answer; via: the caller.
startTunnel(e, a, warned, via) ==
    IF e.tunnelProcess # NoProc
    THEN [ext |-> e, last |-> [op |-> "startTunnel", via |-> via]]
    ELSE [ext |-> [e EXCEPT !.tunnelProcess = e.spawned + 1,
                            !.alive = @ \cup {e.spawned + 1},
                            !.spawned = @ + 1],
          last |-> [op |-> "spawn", via |-> via, authEnabled |-> a.authEnabled,
                    warned |-> warned]]

\* stopTunnel: kill the process, which exits later, and forget it.
stopTunnel(e) ==
    IF e.tunnelProcess = NoProc THEN e
    ELSE [e EXCEPT !.killed = @ \cup {e.tunnelProcess},
                   !.tunnelProcess = NoProc, !.currentTunnelUrl = FALSE]

ExtStep(r, a) ==
    /\ r.ext.spawned <= MaxProcs
    /\ ext' = r.ext
    /\ last' = r.last
    /\ auth' = a
    /\ emitted' = <<>>
    /\ UNCHANGED <<cascades, cdp, entry, pass, budget, hin, hout, clients, watchedCascadeId,
                   server>>

\* startShitChat: the command shitchat.start, or 'start' of the quick menu.
\* started: whether startServer succeeded; the tunnel is started either way.
startShitChat(e, a, started, via) ==
    startTunnel([e EXCEPT !.serverRunning = @ \/ started], a, FALSE, via)

\* stopShitChatCommand
stopShitChatCommand(e, via) ==
    [ext |-> stopTunnel([e EXCEPT !.serverRunning = FALSE]),
     last |-> [op |-> "stop", via |-> via]]

\* openSettings: create the control panel unless it exists.
openSettings(e, via) ==
    [ext |-> [e EXCEPT !.settingsPanel = TRUE], last |-> [op |-> "settings", via |-> via]]

\* The commands of the command palette.
Commands == {"shitchat.start", "shitchat.stop", "shitchat.settings"}
Command(name, started) ==
    /\ ~ext.warning
    /\ name \in Commands
    /\ ExtStep(IF name = "shitchat.start" THEN startShitChat(ext, auth, started, "command")
               ELSE IF name = "shitchat.stop" THEN stopShitChatCommand(ext, "command")
               ELSE openSettings(ext, "command"), auth)

\* showQuickMenu: the actions it offers in the present state.
QuickItems ==
    (IF ext.serverRunning THEN {"stop"} ELSE {"start"})
    \cup (IF ext.serverRunning /\ ext.tunnelProcess # NoProc THEN {"stopTunnel"} ELSE {})
    \cup (IF ext.serverRunning /\ ext.tunnelProcess = NoProc THEN {"startTunnel"} ELSE {})
    \cup {"settings"}

\* showQuickMenu: the user picks an action.
QuickMenu(action, started) ==
    /\ ~ext.warning
    /\ action \in QuickItems
    /\ ExtStep(IF action = "start" THEN startShitChat(ext, auth, started, "menu")
               ELSE IF action = "stop" THEN stopShitChatCommand(ext, "menu")
               ELSE IF action = "startTunnel" THEN startTunnel(ext, auth, FALSE, "menu")
               ELSE IF action = "settings" THEN openSettings(ext, "menu")
               ELSE [ext |-> stopTunnel(ext), last |-> [op |-> "stopTunnel", via |-> "menu"]],
               auth)

\* onDidReceiveMessage: toggleTunnel
ToggleTunnel(active) ==
    /\ ext.settingsPanel
    /\ ~ext.warning
    /\ ExtStep(IF ~active
               THEN [ext |-> stopTunnel(ext), last |-> [op |-> "stopTunnel", via |-> "panel"]]
               ELSE IF ~auth.authEnabled
               THEN [ext |-> [ext EXCEPT !.warning = TRUE],
                     last |-> [op |-> "warning", via |-> "panel"]]
               ELSE startTunnel(ext, auth, FALSE, "panel"), auth)

\* onDidReceiveMessage: toggleTunnel after "await showWarningMessage".
WarningChoices == {"Enable 2FA First", "Continue Anyway (DANGEROUS)", "undefined"}
WarningAnswered(choice) ==
    /\ ext.warning
    /\ LET e == [ext EXCEPT !.warning = FALSE]
           a == [auth EXCEPT !.authEnabled = TRUE]
       IN  IF choice = "Enable 2FA First"
           THEN ExtStep(startTunnel(e, a, TRUE, "panel"), a)
           ELSE IF choice = "Continue Anyway (DANGEROUS)"
           THEN ExtStep(startTunnel(e, auth, TRUE, "panel"), auth)
           ELSE ExtStep([ext |-> e, last |-> [op |-> "cancelled", via |-> "panel"]], auth)

\* onDidReceiveMessage: toggle2FA
Toggle2FA(active) ==
    /\ ext.settingsPanel
    /\ ~ext.warning
    /\ active # auth.authEnabled
    /\ ExtStep([ext |-> ext, last |-> [op |-> "toggle2FA", via |-> "panel"]],
               [auth EXCEPT !.authEnabled = active])

\* onDidReceiveMessage: toggleServer
ToggleServer(active, started) ==
    /\ ext.settingsPanel
    /\ ~ext.warning
    /\ ExtStep([ext |-> [ext EXCEPT !.serverRunning = IF active THEN @ \/ started ELSE FALSE],
                last |-> [op |-> "toggleServer", via |-> "panel"]], auth)

\* settingsPanel.onDidDispose
PanelDisposed ==
    /\ ext.settingsPanel
    /\ ~ext.warning
    /\ ExtStep([ext |-> [ext EXCEPT !.settingsPanel = FALSE],
                last |-> [op |-> "dispose", via |-> "panel"]], auth)

\* tunnelProcess.on('exit') of the process pid: the handler clears the
\* variables, whichever process they then refer to.
TunnelExit(pid) ==
    /\ pid \in ext.alive
    /\ ExtStep([ext |-> [ext EXCEPT !.alive = @ \ {pid}, !.killed = @ \ {pid},
                                    !.tunnelProcess = NoProc, !.currentTunnelUrl = FALSE],
                last |-> [op |-> "exit", via |-> "tunnel"]], auth)

\* handleTunnelOutput: the tunnel printed its URL.
TunnelOutput ==
    /\ ext.tunnelProcess # NoProc
    /\ ~ext.currentTunnelUrl
    /\ ExtStep([ext |-> [ext EXCEPT !.currentTunnelUrl = TRUE],
                last |-> [op |-> "url", via |-> "tunnel"]], auth)

ExtInit ==
    /\ cascades = EmptyMap
    /\ cdp = [s \in Sessions |-> FreshCdp]
    /\ entry = [s \in Sessions |-> FreshEntry]
    /\ pass = [p \in Passes |-> IdlePass]
    /\ emitted = <<>>
    /\ last = NoLast
    /\ budget = [discover |-> 0, poll |-> 0, fault |-> 0, callId |-> 0, api |-> 0]
    /\ hin = <<>>
    /\ hout = <<>>
    /\ Aside

ExtNext ==
    \/ \E name \in Commands, started \in BOOLEAN : Command(name, started)
    \/ \E action \in {"start", "stop", "startTunnel", "stopTunnel", "settings"},
          started \in BOOLEAN :
          QuickMenu(action, started)
    \/ \E active \in BOOLEAN : ToggleTunnel(active)
    \/ \E choice \in WarningChoices : WarningAnswered(choice)
    \/ \E active \in BOOLEAN : Toggle2FA(active)
    \/ \E active \in BOOLEAN, started \in BOOLEAN : ToggleServer(active, started)
    \/ PanelDisposed
    \/ \E pid \in 1..MaxProcs : TunnelExit(pid)
    \/ TunnelOutput

ExtSpec == ExtInit /\ [][ExtNext]_vars

\* ------------------------------------------------------------- stylesheets
\* GET /styles/:id
stylesRoute(st, id) ==
    LET s == Get(st.cascades, id)
    IN  IF s = NoSession
        THEN [st EXCEPT !.last = [op |-> "styles", id |-> id, status |-> 404,
                                  s |-> NoSession, body |-> "Not found"]]
        ELSE [st EXCEPT !.last = [op |-> "styles", id |-> id, status |-> 200, s |-> s,
                                  body |-> IF st.entry[s].css = "null" THEN ""
                                           ELSE st.entry[s].css]]

GetStyles(id) ==
    /\ Spend("api")
    /\ Apply(stylesRoute(State, id))

\* The established engine with one discovery pass, one poll and two requests.
StyleInit ==
    /\ Established
    /\ emitted = <<>>
    /\ last = NoLast
    /\ budget = [discover |-> 1, poll |-> MaxPolls, fault |-> MaxFaults,
                 callId |-> MaxCallId + 1, api |-> MaxRequests]
    /\ hin = <<>>
    /\ hout = <<>>
    /\ Aside

StyleNext ==
    \/ Next
    \/ \E id \in ReqIds : GetStyles(id)
    \/ \E id \in ReqIds : SendMessage(id)

StyleSpec == StyleInit /\ [][StyleNext]_vars

\* ------------------------------------------------------------- properties
Completed == last.op = "discover"
ListBroadcast == \E i \in 1..Len(emitted) : emitted[i].type = "cascade_list"

\* C1: after every completed discovery pass the registry key set is exactly the
\* set of identities of that pass's candidates for which extractMetadata returned
\* a result.
C1_KeysAreIdentified ==
    Completed => Keys(cascades) = last.identified

\* A pass with two candidates of which exactly one was identified has completed.
C1_Witness ==
    /\ Completed
    /\ Cardinality(last.cands) = 2
    /\ Cardinality(last.identified) = 1
    /\ Keys(cascades) = last.identified

C5_BroadcastIffMembershipChanged ==
    Completed => (ListBroadcast <=> Keys(cascades) # Keys(last.before))

C6_WitnessSilent ==
    /\ Completed
    /\ last.allDown
    /\ Keys(last.before) = {}
    /\ emitted = <<>>


\* C2 (as claimed): in every reachable state each identity has at most one
\* protocol session whose transport is open.
Live(s) == cdp[s].ws = "open"

C2_OneLiveSessionPerIdentity ==
    \A s1 \in Sessions, s2 \in Sessions :
        (Live(s1) /\ Live(s2) /\ cdp[s1].url = cdp[s2].url) => s1 = s2

\* The same with no pass in flight: the second transport is not a transient of a pass.
C2_OneLiveSessionAtRest ==
    (\A p \in Passes : pass[p].pc = "idle") => C2_OneLiveSessionPerIdentity

\* C4 (as claimed): while a pass is in progress no observer can see a registry in
\* which one entry already carries the pass's refresh (metadata or root context
\* overwritten) while another entry of the registry is still waiting for it.
Waiting(p) ==
    {IdOf[pass[p].targets[k].webSocketDebuggerUrl] : k \in 1..Len(pass[p].targets)}
    \cup (IF pass[p].url = NoUrl THEN {} ELSE {IdOf[pass[p].url]} \ Keys(pass[p].newCascades))

C4_NoPartiallyReconciledState ==
    \A p \in Passes :
        pass[p].pc # "idle" =>
            ~ \E i \in pass[p].touched, j \in Keys(cascades) \cap Waiting(p) :
                 /\ i # j
                 /\ cascades[i] = pass[p].newCascades[i]


\* The state PollSpec starts from is one the engine reaches from construction.
EstablishedReached == Established


\* ------------------------------------------------------------- polling
Captured == last.op = "capture"
SnapshotEvents == SelectSeq(emitted, LAMBDA m : m.type = "snapshot_update")

\* C7: a poll that captures a snapshot whose hash equals the stored hash leaves
\* the stored snapshot and hash alone and announces nothing; one whose hash
\* differs replaces both and emits exactly one snapshot_update with the entry's id.
C7_CaptureCompare ==
    Captured =>
        LET s == last.s
            h == hashString(last.snap.html)
        IN  IF h = last.old.snapshotHash
            THEN /\ entry[s].snapshot = last.old.snapshot
                 /\ entry[s].snapshotHash = last.old.snapshotHash
                 /\ SnapshotEvents = <<>>
            ELSE /\ entry[s].snapshot = last.snap
                 /\ entry[s].snapshotHash = h
                 /\ SnapshotEvents = <<[type |-> "snapshot_update", cascadeId |-> entry[s].id]>>

\* A second capture returned the stored HTML byte for byte and nothing was announced.
C7_Witness ==
    /\ Captured
    /\ last.old.snapshotHash # NoHash
    /\ last.snap.html = last.old.snapshot.html
    /\ emitted = <<>>

\* A second capture returned the stored HTML plus "!" and was announced once.
C7_WitnessChanged ==
    /\ Captured
    /\ last.old.snapshot.html = <<65, 97>>
    /\ last.snap.html = <<65, 97, 33>>
    /\ Len(SnapshotEvents) = 1

\* C8 (as claimed): on a capture that follows a stored capture of the same entry,
\* the new hash differs from the stored hash if and only if the new HTML differs
\* from the stored HTML.
C8_HashChangesIffHtmlChanges ==
    (Captured /\ last.old.snapshot # NoSnap) =>
        (hashString(last.snap.html) # last.old.snapshotHash
            <=> last.snap.html # last.old.snapshot.html)

\* C8 (amended): the new hash differs from the stored hash only if the new HTML
\* differs from the stored HTML, and then the stored snapshot is replaced.
C8_HashChangeImpliesHtmlChange ==
    (Captured /\ last.old.snapshot # NoSnap) =>
        (hashString(last.snap.html) # last.old.snapshotHash
            => (last.snap.html # last.old.snapshot.html /\ entry[last.s].snapshot = last.snap))

\* A capture that follows a stored capture came back with another hash.
C8_Witness ==
    /\ Captured
    /\ last.old.snapshot # NoSnap
    /\ hashString(last.snap.html) # last.old.snapshotHash
    /\ last.snap.html # last.old.snapshot.html


\* ------------------------------------------------------------- hashString
\* C9 (as claimed): two strings that differ by one single-character change
\* (substitution, insertion or deletion) have different hashes.
C9_SingleEditChangesHash ==
    hin.edit \in {"substitution", "insertion", "deletion"} => hout.s # hout.t

\* C9 (amended): two strings that differ by the substitution of one character
\* have different hashes.
C9_SubstitutionChangesHash ==
    hin.edit = "substitution" => hout.s # hout.t

\* A three-character string whose hash has wrapped past 32 bits, and a
\* substitution of its first character.
C9_Witness ==
    /\ hin.edit = "substitution"
    /\ Len(hin.s) = 3
    /\ hin.s[1] # hin.t[1]
    /\ hin.s[1] = 65535 /\ hin.s[2] = 65535
    /\ hout.s # hout.t


\* ------------------------------------------------------------- pending calls
\* The calls of session s that were sent to the browser and still await a response.
InFlight(s) == {rec \in cdp[s].pending : rec.sent}

\* C10: the calls that are in flight when the session's transport has closed
\* are eventually resolved, rejected or abandoned: none of them stays in the
\* pending table forever.  (A closed session sends nothing, so its in-flight
\* set only shrinks and "eventually empty" says it of every call.)
C10_NoCallPendingForever ==
    \A s \in Sessions :
        (cdp[s].ws = "closed" /\ InFlight(s) # {}) ~> (InFlight(s) = {})

\* No step takes an in-flight call out of the pending table of a closed session.
C10_ClosedSessionKeepsCalls ==
    [][\A s \in Sessions : \A rec \in cdp[s].pending :
          (rec.sent /\ cdp[s].ws = "closed") => rec \in cdp'[s].pending]_vars


\* ------------------------------------------------------------- session lifetime
AtRest == \A p \in Passes : pass[p].pc = "idle"

\* C12 (as claimed): with no discovery pass in progress every open transport
\* belongs to an entry that is in the registry, and the transport of an entry
\* that a swap took out of the registry is closed.
C12_OpenExactlyWhileRegistered ==
    /\ AtRest => \A s \in Sessions : Live(s) => s \in Values(cascades)
    /\ \A s \in Sessions :
          (entry[s].removed /\ s \notin Values(cascades)) => ~Live(s)

C14_ClosedIsTerminal ==
    [][\A s \in Sessions :
          (entry[s].removed /\ cdp[s].ws = "closed" /\ s \notin Values(cascades))
              => s \notin Values(cascades')]_vars


\* ------------------------------------------------------------- call ids
\* C11: within one session the ids call hands out are strictly increasing in
\* issue order, whoever issues them, and no two pending calls share an id.
C11_CallIdsIncrease ==
    \A s \in Sessions :
        /\ \A i \in 1..Len(cdp[s].issued), j \in 1..Len(cdp[s].issued) :
              i < j => cdp[s].issued[i] < cdp[s].issued[j]
        /\ \A r1 \in cdp[s].pending, r2 \in cdp[s].pending : r1.id = r2.id => r1 = r2

\* A session that discovery connected has a poll's capture and a dispatch's
\* injection pending at once.
C11_Witness ==
    \E s \in Sessions :
        /\ Len(cdp[s].issued) >= 5
        /\ \E r1 \in cdp[s].pending, r2 \in cdp[s].pending :
              r1.kind = "html" /\ r2.kind = "inject"

\* ------------------------------------------------------------- dispatch
\* C17: a send request with an identity that is not in the registry is answered
\* with the not-found failure and changes neither the registry nor any session
\* or entry, and broadcasts nothing.
C17_SendToMissingId ==
    [][(last'.op = "send" /\ budget'.api < budget.api /\ Get(cascades, last'.id) = NoSession)
          => /\ last'.status = 404
             /\ last'.body = "Cascade not found"
             /\ UNCHANGED <<cascades, cdp, entry, pass>>
             /\ emitted' = <<>>]_vars

\* "missing" was sent to while the registry held an entry, and was refused.
C17_Witness ==
    /\ last.op = "send"
    /\ last.id = MissingId
    /\ last.status = 404
    /\ Keys(cascades) # {}

Sending == \E s \in Sessions : \E rec \in cdp[s].pending : rec.kind = "inject"

\* C18 (as claimed): every send request for a tracked identity completes with a
\* result: an injection that is awaited is eventually no longer awaited.
C18_SendCompletes == Sending ~> ~Sending

C20_ServesRegisteredSnapshot ==
    last.op = "snapshot" =>
        LET s == Get(cascades, last.id)
        IN  IF s # NoSession /\ entry[s].snapshot # NoSnap
            THEN /\ last.status = 200
                 /\ last.body = entry[s].snapshot
                 /\ ~entry[s].removed
            ELSE last.status = 404

\* ------------------------------------------------------------- isolation
PassEnded == last.op \in {"discover", "aborted"}

\* C15 (as claimed): whatever is wrong with one target, the discovery pass that
\* meets it runs to its swap and has by then gone through every listed target.
C15_TargetErrorIsolated ==
    (PassEnded /\ ~last.nonList) => (Completed /\ last.left = <<>>)

\* C16 (as claimed): a pass in which a port answered with JSON that is not a
\* list runs to its swap and reconciles what the other ports listed.
C16_PortFailureIsolated ==
    (PassEnded /\ last.nonList) => (Completed /\ last.left = <<>>)

\* The state ApiSpec starts from is one the engine reaches by polling.
EstablishedWithSnapshotReached == EstablishedWithSnapshot

\* ------------------------------------------------------------- concurrency of calls
\* C27 (as claimed): at any time a session has at most one call that was issued
\* and is not yet completed, whichever of the discovery loop, the polling loop
\* and the dispatcher issued it.
C27_OneOutstandingCall ==
    \A s \in Sessions : Cardinality(cdp[s].pending) <= 1

\* ------------------------------------------------------------- identification
\* C30: a new connection that no context identifies has its transport closed
\* and gets no entry: neither in the mapping the pass is building nor, once the
\* pass has ended, in the registry.
C30_UnidentifiedDiscarded ==
    /\ \A p \in Passes : \A s \in pass[p].unidentified :
          /\ cdp[s].ws = "closed"
          /\ s \notin Values(pass[p].newCascades)
    /\ PassEnded =>
          \A s \in last.unidentified :
              /\ cdp[s].ws = "closed"
              /\ ~entry[s].exists
              /\ s \notin Values(cascades)

\* A pass with two candidates has completed: one was identified and is in the
\* registry, the connection to the other was opened, probed and not identified.
C30_Witness ==
    /\ Completed
    /\ Cardinality(last.cands) = 2
    /\ Cardinality(last.identified) = 1
    /\ \E s \in last.unidentified : Len(cdp[s].issued) >= 2
    /\ Keys(cascades) # {}

\* ------------------------------------------------------------- cached root context
\* C29 (as claimed): extractMetadata scans the known contexts only with the
\* cache clear: either the session had no cached root context id, or the probe
\* of the cached context failed and that cleared the cache.
C29_FailedCachedProbeClearsCache ==
    \A s \in Sessions :
        (\E rec \in cdp[s].pending : rec.kind = "meta" /\ rec.stage = "scan")
            => cdp[s].rootContextId = NoCtx

\* ------------------------------------------------------------- call correlation
Completes(s) == cdp[s].pending \ cdp'[s].pending

\* C28: one inbound message completes at most one pending call, on one session;
\* a response whose id is no longer awaited completes none and changes nothing;
\* an execution-context event completes none.
C28_ResponseCompletesItsCall ==
    [][\A s \in Sessions :
          /\ Cardinality(Completes(s)) <= 1
          /\ \A t \in Sessions \ {s} : Completes(s) = {} \/ Completes(t) = {}
          /\ (last'.op = "ignored" /\ budget' # budget)
                => /\ UNCHANGED <<cascades, cdp, entry, pass>>
                   /\ emitted' = <<>>
          /\ cdp'[s].contexts # cdp[s].contexts => Completes(s) = {}]_vars

\* The response to a call that has completed arrived again while two other
\* calls were pending on that session, and was ignored.
C28_Witness ==
    /\ last.op = "ignored"
    /\ Cardinality(cdp[last.s].pending) = 2
    /\ \A rec \in cdp[last.s].pending : rec.sent /\ rec.id # last.id

\* ------------------------------------------------------------- title validator
\* The phrases the validator is to reject, in lower case.
Boilerplate == {a : a \in UNION {bad[k].alts : k \in 1..Len(bad)}}
SameIgnoringCase(a, b) ==
    /\ Len(a) = Len(b)
    /\ \A i \in 1..Len(a) : toLowerCase(a[i]) = toLowerCase(b[i])

\* C24: isGoodTitle rejects every string whose whitespace-normalized form is
\* shorter than 3 or longer than 80 characters, and every string whose
\* normalized form is a boilerplate phrase in any letter case.
C24_RejectsShortLongBoilerplate ==
    /\ (Len(hout.text) < 3 \/ Len(hout.text) > 80) => ~hout.good
    /\ (\E ph \in Boilerplate : SameIgnoringCase(hout.text, ph)) => ~hout.good

\* A boilerplate phrase written with capitals and with whitespace around it was
\* rejected.
C24_Witness ==
    /\ ~hout.good
    /\ \E ph \in Boilerplate : SameIgnoringCase(hout.text, ph) /\ hout.text # ph
    /\ Len(hin.value) > Len(hout.text)

\* A string of 81 characters that is no boilerplate was rejected, and one of 80
\* characters was accepted.
C24_WitnessLong == Len(hout.text) = 81 /\ ~hout.good /\ Head(hout.text) = "F"
C24_WitnessFits == Len(hout.text) = 80 /\ hout.good

\* ------------------------------------------------------------- reported titles
\* C23 (as claimed): every chat title the probe reports, other than the generic
\* fallback label, passes the validity filter.
C23_ReportedTitleIsValid ==
    (hout.found /\ hout.chatTitle \notin {Agent, CursorChat}) => isGoodTitle(hout.chatTitle)

\* ------------------------------------------------------------- event delivery
\* The list message for the registry as it is after the step.
ListNow ==
    [type |-> "cascade_list",
     cascades |-> {[id |-> i, title |-> entry'[cascades'[i]].chatTitle] : i \in Keys(cascades')}]

\* C21: every step sends each event it emits exactly once to every subscriber
\* that is connected, and nothing to one that is not; a subscriber that
\* connects is sent one list of the registry as it is then, and nothing emitted
\* before.
C21_AtMostOnceNoReplay ==
    [][\A c \in Subscribers :
          IF clients'[c].readyState = "open" /\ clients[c].readyState = "open"
          THEN clients'[c].inbox = clients[c].inbox \o emitted'
          ELSE IF clients'[c].readyState = "open"
          THEN /\ clients[c].inbox = <<>>
               /\ clients'[c].inbox = <<ListNow>>
               /\ emitted' = <<ListNow>>
          ELSE clients'[c].inbox = clients[c].inbox]_vars

\* One subscriber has been sent the list when it connected, a snapshot event,
\* and the list again when the other connected; the other, which connected
\* after the snapshot event, has been sent that one list only.
C21_Witness ==
    \E c \in Subscribers, d \in Subscribers :
        /\ clients[c].readyState = "open"
        /\ Len(clients[c].inbox) = 3
        /\ clients[c].inbox[1].type = "cascade_list"
        /\ clients[c].inbox[2].type = "snapshot_update"
        /\ clients[c].inbox[3].type = "cascade_list"
        /\ clients[d].readyState = "open"
        /\ clients[d].inbox = <<clients[c].inbox[3]>>

\* ------------------------------------------------------------- watched cascade
\* C22 (as claimed): once an identity is watched, a poll pass replaces the
\* snapshot or hash of, or announces a snapshot for, the watched entry only;
\* setWatched with an untracked id fails and leaves the watched identity as it was.
C22_OnlyWatchedCaptured ==
    /\ (last.op = "capture" /\ (entry[last.s] # last.old \/ emitted # <<>>))
          => entry[last.s].id = watchedCascadeId
    /\ (last.op = "watch" /\ last.status = 404) => watchedCascadeId = last.before

Issued(s) == cdp'[s].pending \ cdp[s].pending

\* C22 (amended): a poll pass issues its capture on the entry of the identity
\* that is watched when the pass starts, and on no other; a snapshot or hash is
\* replaced, and a snapshot event emitted, only for an entry whose capture
\* completes in that step; setWatched with an untracked id is answered 404 and
\* leaves the watched identity as it was, with a tracked id it sets it.
C22_PassPollsWatchedAtStart ==
    [][/\ \A s \in Sessions :
             /\ Issued(s) # {} =>
                   (watchedCascadeId # NoWatch /\ Get(cascades, watchedCascadeId) = s)
             /\ entry'[s] # entry[s] => \E rec \in Completes(s) : rec.kind = "html"
       /\ \A i \in 1..Len(emitted') :
             /\ emitted'[i].type = "snapshot_update"
             /\ \E s \in Sessions : entry[s].id = emitted'[i].cascadeId /\ Completes(s) # {}
       /\ (last'.op = "watch" /\ budget'.api < budget.api)
             => IF Get(cascades, last'.id) = NoSession
                THEN last'.status = 404 /\ watchedCascadeId' = watchedCascadeId
                ELSE last'.status = 200 /\ watchedCascadeId' = last'.id]_vars

\* B is watched and its capture has just been stored; A, watched before, has
\* the snapshot from then.
C22_Witness ==
    /\ last.op = "capture"
    /\ entry[last.s].id = watchedCascadeId
    /\ entry[last.s].snapshot # NoSnap
    /\ entry[last.s] # last.old
    /\ \E t \in Sessions \ {last.s} : entry[t].snapshot # NoSnap

\* ------------------------------------------------------------- access control
\* The HTTP part of C25: while 2FA is enabled a request whose cookie is no
\* token created by a login within the last SESSION_DURATION reaches no route.
C25_RequestsGuarded ==
    (last.op = "request" /\ last.authEnabled /\ ~last.held) => last.outcome = "denied"

\* C25 (as claimed): while 2FA is enabled, a client without a valid session
\* token reaches no route and, connecting as a subscriber, is sent no event.
C25_NoAccessWithoutSession ==
    /\ C25_RequestsGuarded
    /\ (last.op = "connection" /\ auth.authEnabled /\ \A t \in Tokens : ~Held(auth, t))
          => clients[last.c].inbox = <<>>

\* A request with a token older than SESSION_DURATION was denied.
C25_ExpiredDenied ==
    /\ last.op = "request"
    /\ last.authEnabled
    /\ last.cookie # NoToken
    /\ auth.created[last.cookie] # NoExpiry
    /\ ~last.held
    /\ last.outcome = "denied"

\* ------------------------------------------------------------- tunnel warning
\* C26 (as claimed): whenever the tunnel process is spawned while 2FA is
\* disabled, the modal security warning has been shown and answered first.
C26_TunnelWarnedWithout2FA ==
    (last.op = "spawn" /\ ~last.authEnabled) => last.warned

\* The control panel's own path does warn: a tunnel it spawned with 2FA
\* disabled was spawned after the warning was answered.
C26_PanelWarns ==
    (last.op = "spawn" /\ ~last.authEnabled /\ last.via = "panel") => last.warned
C26_PanelWarned == last.op = "spawn" /\ ~last.authEnabled /\ last.via = "panel"

\* ------------------------------------------------------------- refresh in place
\* C31 (as claimed): a pass opens no new connection for a candidate whose
\* identity the registry holds with an open transport, and the refresh of such
\* an entry leaves its session, snapshot, hash and stylesheet as they were.
C31_RefreshKeepsEntry ==
    [][/\ \A s \in Sessions :
             (cdp[s].ws = "none" /\ cdp'[s].ws = "connecting")
             => LET existing == cascades[IdOf[cdp'[s].url]]
                IN  ~(existing # NoSession /\ cdp[existing].ws = "open")
       /\ \A p \in Passes :
             (pass[p].mode = "refresh" /\ pass[p].pc = "probe" /\ pass'[p].pc # "probe"
              /\ pass'[p].mode = "refresh")
             => LET s == pass[p].s
                IN  /\ entry'[s].snapshot = entry[s].snapshot
                    /\ entry'[s].snapshotHash = entry[s].snapshotHash
                    /\ entry'[s].css = entry[s].css]_vars

\* ------------------------------------------------------------- stylesheet lifetime
\* C32: the stylesheet of an entry is captured once, when the entry is created:
\* no step changes the stylesheet of an entry that exists, and no stylesheet
\* capture is outstanding on the session of an entry that exists.
C32_StylesheetCapturedOnce ==
    [][\A s \in Sessions :
          /\ entry[s].exists => (entry'[s].exists /\ entry'[s].css = entry[s].css)
          /\ entry'[s].exists => \A rec \in cdp'[s].pending : rec.kind # "css"]_vars

\* A pass has refreshed the entry, a poll has replaced its snapshot, and the
\* stylesheet it was created with is served.
C32_Witness ==
    /\ last.op = "styles" /\ last.status = 200 /\ last.s = 1 /\ last.body = "css"
    /\ budget.discover = 0 /\ \A p \in Passes : pass[p].pc = "idle"
    /\ cascades[entry[1].id] = 1
    /\ entry[1].snapshot # NoSnap
    /\ entry[1].css = "css"

\* ------------------------------------------------------------- shape selection
\* C33 (as claimed): in every document where the extractor identifies a chat
\* root and the injection finds an editor, the editor belongs to the root the
\* extractor identified.
C33_ComposerOfExtractedShape ==
    (hout.extracted # "none" /\ hout.injected.ok) => hout.injected.editor = hout.extracted

\* ------------------------------------------------------------- cached context is known
\* C34 (as claimed): a session's cached root context id, when set, is the id of
\* a context in the session's list of known contexts.
C34_CachedContextIsKnown ==
    \A s \in Sessions :
        cdp[s].rootContextId # NoCtx
            => \E i \in 1..Len(cdp[s].contexts) : cdp[s].contexts[i] = cdp[s].rootContextId

\* ------------------------------------------------------------- one pass at a time
\* C36 (as claimed): at most one discovery pass is in flight at any time.
C36_OnePassInFlight ==
    Cardinality({p \in Passes : pass[p].pc # "idle"}) <= 1

\* ------------------------------------------------------------- passes complete
\* C37 (as claimed): every discovery pass that starts eventually completes,
\* whether or not the targets answer.
C37_PassCompletes ==
    \A p \in Passes : (pass[p].pc # "idle") ~> (pass[p].pc = "idle")

\* ------------------------------------------------------------- server lifecycle
\* C35 (as claimed): from the return of stopServer until the next startServer
\* call the registry is empty.
C35_EmptyAfterStop ==
    (~server.currentServer /\ server.awaiting = 0) => cascades = EmptyMap

\* C38 (as claimed): at most one discovery timer and at most one polling timer
\* exist, and when stopServer returns none exists.
C38_TimersOwned ==
    /\ \A t, u \in server.timers : t.fn = u.fn => t = u
    /\ last.op = "stopServer" => server.timers = {}

\* C40 (as claimed): the watched identity is unset or the id of an entry of the
\* registry.
C40_WatchedIsRegistered ==
    watchedCascadeId = NoWatch \/ Get(cascades, watchedCascadeId) # NoSession

\* ------------------------------------------------------------- tunnel process
\* C39 (as claimed): tunnelProcess is set exactly while a spawned tunnel process
\* is alive, and at most one is alive; a process that stopTunnel has killed
\* counts as gone from the moment it was killed.
C39_OneTunnelTracked ==
    LET live == ext.alive \ ext.killed
    IN  /\ ext.tunnelProcess # NoProc <=> live # {}
        /\ Cardinality(live) <= 1

====
